---------------------------- MODULE Spec2Model ----------------------------
(***************************************************************************)
(* A model of the iterative code-repair agents of wskim3173/aios:          *)
(*   - the tagged tool-using loop  benchmarks/agents/react_code/agent.py   *)
(*   - the tagged tool-free loop   benchmarks/agents/react.py              *)
(*   - the strict structured loop  benchmarks/agents/react_code.py         *)
(*   - the multi-agent orchestrator benchmarks/humaneval/inference_multi.py*)
(*                                                                         *)
(* Text is a sequence of tokens.  A token is a TLA+ string standing for a  *)
(* piece of text that the program's regular expressions never split: a     *)
(* label ("Observation:"), a tag ("<FINAL_ANSWER>"), a word, one space     *)
(* ("SP"), one tab ("TAB"), one line feed ("NL"), one carriage return      *)
(* ("CR").  The parsers below are the program's regular expressions        *)
(* evaluated over such token sequences.                                    *)
(***************************************************************************)
EXTENDS Integers, Sequences, FiniteSets, TLC

(***************************************************************************)
(* Bounds of the model.                                                    *)
(***************************************************************************)
\* the largest max_steps an agent is constructed with
MaxSteps == 2

\* the step limit of the runs that outgrow the history window
LongSteps == 5

\* the longest sandbox report, in tokens, the summarizer is applied to
ReportLen == 3

\* the longest tool name, in characters, that is encoded and decoded
NameLen == 4
\* the most tool calls in one reply or message
MaxCalls == 2

\* how many runs main() of run_concurrent_demo_agent.py gathers (--num_agents)
NumDemoAgents == 2

\* how many runs main() gathers when the semaphore is followed (more than
\* SUBMIT_CONCURRENCY, so that a run has to wait)
NumGuarded == 9

\* how many times run() is called on one agent instance
MaxRuns == 2
\* the largest pool of agents (--agent_num) main() is run with
MaxAgents == 2
\* how many dataset items main() is run on
NumTasks == 3

(***************************************************************************)
(* Text helpers (Python str methods over token sequences).                 *)
(***************************************************************************)
\* characters matched by \s
WS == {"SP", "TAB", "NL", "CR"}

\* str.lower() on the tokens whose case matters to the program
Lower(tok) ==
  CASE tok = "SUCCESS" -> "success"
    [] tok = "Success" -> "success"
    [] tok = "FAILURE" -> "failure"
    [] tok = "Failure" -> "failure"
    [] tok = "TIMEOUT" -> "timeout"
    [] tok = "YES" -> "yes"
    [] tok = "Yes" -> "yes"
    [] tok = "NO" -> "no"
    [] tok = "No" -> "no"
    [] tok = "TRUE" -> "true"
    [] tok = "True" -> "true"
    [] tok = "FALSE" -> "false"
    [] tok = "False" -> "false"
    [] tok = "Status" -> "status"
    [] tok = "Exit" -> "exit"
    [] tok = "OBSERVATION:" -> "observation:"
    [] tok = "Observation:" -> "observation:"
    [] tok = "THOUGHT:" -> "thought:"
    [] tok = "Thought:" -> "thought:"
    [] tok = "FINISH:" -> "finish:"
    [] tok = "Finish:" -> "finish:"
    [] tok = "CANDIDATE:" -> "candidate:"
    [] tok = "Candidate:" -> "candidate:"
    [] tok = "<FINAL_ANSWER>" -> "<final_answer>"
    [] tok = "</FINAL_ANSWER>" -> "</final_answer>"
    [] tok = "<TESTS>" -> "<tests>"
    [] tok = "</TESTS>" -> "</tests>"
    [] OTHER -> tok

\* the least element of a nonempty set of integers
Min(S) == CHOOSE m \in S : \A n \in S : m <= n

\* the greatest element of a nonempty set of integers
Max(S) == CHOOSE m \in S : \A n \in S : m >= n

\* t[a..b], empty when a > b
Slice(t, a, b) == IF a > b THEN <<>> ELSE SubSeq(t, a, b)

\* the index of the first token at or after `from` that is not in `chars`
\* (Len(t) + 1 when there is none): where a greedy character class stops
SkipClass(t, from, chars) ==
  LET stops == {i \in from..Len(t) : t[i] \notin chars}
  IN  IF stops = {} THEN Max({from, Len(t) + 1}) ELSE Min(stops)

\* the index of the first "NL" at or after `from` (Len(t) + 1 when there is
\* none): where a greedy .* stops
NextNL(t, from) ==
  LET nls == {i \in from..Len(t) : t[i] = "NL"}
  IN  IF nls = {} THEN Max({from, Len(t) + 1}) ELSE Min(nls)

\* str.strip(chars)
StripChars(t, chars) ==
  LET keep == {i \in 1..Len(t) : t[i] \notin chars}
  IN  IF keep = {} THEN <<>> ELSE SubSeq(t, Min(keep), Max(keep))

\* str.rstrip(chars)
RStripChars(t, chars) ==
  LET keep == {i \in 1..Len(t) : t[i] \notin chars}
  IN  IF keep = {} THEN <<>> ELSE SubSeq(t, 1, Max(keep))

\* str.strip()
Strip(t) == StripChars(t, WS)

\* text.replace("\r\n", "\n").replace("\r", "\n")
RECURSIVE NormalizeNewlines(_)
NormalizeNewlines(t) ==
  IF t = <<>> THEN <<>>
  ELSE IF Len(t) >= 2 /\ t[1] = "CR" /\ t[2] = "NL"
       THEN <<"NL">> \o NormalizeNewlines(SubSeq(t, 3, Len(t)))
  ELSE IF t[1] = "CR" THEN <<"NL">> \o NormalizeNewlines(Tail(t))
  ELSE <<t[1]>> \o NormalizeNewlines(Tail(t))

\* str.splitlines() (line ends: "\n", "\r", "\r\n")
RECURSIVE SplitLines(_)
SplitLines(t) ==
  LET u == NormalizeNewlines(t)
      nls == {i \in 1..Len(u) : u[i] = "NL"}
  IN  IF u = <<>> THEN <<>>
      ELSE IF nls = {} THEN <<u>>
      ELSE <<Slice(u, 1, Min(nls) - 1)>> \o SplitLines(Slice(u, Min(nls) + 1, Len(u)))

\* "\n".join(lines)
RECURSIVE JoinLines(_)
JoinLines(lines) ==
  IF lines = <<>> THEN <<>>
  ELSE IF Len(lines) = 1 THEN lines[1]
  ELSE lines[1] \o <<"NL">> \o JoinLines(Tail(lines))

\* (?m)^\s* ends at i: a line starts at some p <= i and only \s lies between
AtLineStart(t, i) ==
  \E p \in 1..i : (p = 1 \/ t[p - 1] = "NL") /\ \A q \in p..(i - 1) : t[q] \in WS

\* (?m)\s*$ starts at i: only \s lies between i and some line end
AtLineEnd(t, i) ==
  \E e \in i..(Len(t) + 1) :
    (e = Len(t) + 1 \/ t[e] = "NL") /\ \A q \in i..(e - 1) : t[q] \in WS

\* group 1 of (?im)^\s*<label>\s*(.*)$ , stripped; "" when the label is absent
LabelledLine(t, label) ==
  LET hits == {i \in 1..Len(t) : Lower(t[i]) = label /\ AtLineStart(t, i)}
  IN  IF hits = {} THEN <<>>
      ELSE LET s == SkipClass(t, Min(hits) + 1, WS)
               e == NextNL(t, s)
           IN  Strip(Slice(t, s, e - 1))

(***************************************************************************)
(* react_code/agent.py: the plain-text step parser.                        *)
(***************************************************************************)
\* group 1 of <open>(.*?)</close> (DOTALL, IGNORECASE) as <<found, group>>
TaggedBlock(t, open, close) ==
  LET opens == {i \in 1..Len(t) : Lower(t[i]) = open}
      closes == IF opens = {} THEN {}
                ELSE {j \in (Min(opens) + 1)..Len(t) : Lower(t[j]) = close}
  IN  IF closes = {} THEN [found |-> FALSE, group |-> <<>>]
      ELSE [found |-> TRUE, group |-> Slice(t, Min(opens) + 1, Min(closes) - 1)]

\* group 1, lower-cased, of (?im)^\s*Finish:\s*(<yes>|<no>)\s*$ ; "" when absent
FinishWord(t, label, words) ==
  LET hits == {i \in 1..Len(t) :
                 /\ Lower(t[i]) = label
                 /\ AtLineStart(t, i)
                 /\ LET k == SkipClass(t, i + 1, WS)
                    IN  k <= Len(t) /\ Lower(t[k]) \in words /\ AtLineEnd(t, k + 1)}
  IN  IF hits = {} THEN ""
      ELSE Lower(t[SkipClass(t, Min(hits) + 1, WS)])

\* ReActAgent._parse_react_step
ParseReactStep(text) ==
  LET t == NormalizeNewlines(text)
      m_body == TaggedBlock(t, "<final_answer>", "</final_answer>")
      body == StripChars(m_body.group, {"NL"})
      m_tests == TaggedBlock(t, "<tests>", "</tests>")
  IN  [observation |-> LabelledLine(t, "observation:"),
       thought |-> LabelledLine(t, "thought:"),
       candidate |-> IF m_body.found
                     THEN <<"<FINAL_ANSWER>", "NL">> \o body \o <<"NL", "</FINAL_ANSWER>">>
                     ELSE <<>>,
       body |-> IF m_body.found THEN body ELSE <<>>,
       tests |-> IF m_tests.found THEN StripChars(m_tests.group, {"NL"}) ELSE <<>>,
       finish |-> FinishWord(t, "finish:", {"yes", "no"}) = "yes"]

\* ReActAgent._extract_def_header: the first stripped line starting "def "
ExtractDefHeader(task_input) ==
  LET lines == SplitLines(task_input)
      IsDef(l) == LET s == Strip(l) IN Len(s) >= 2 /\ s[1] = "def" /\ s[2] = "SP"
      hits == {i \in 1..Len(lines) : IsDef(lines[i])}
  IN  IF hits = {} THEN <<>> ELSE Strip(lines[Min(hits)])

\* ReActAgent._build_full_code
BuildFullCode(task_input, func_header, body) ==
  RStripChars(task_input, {"NL"}) \o <<"NL">> \o body \o <<"NL">>

(***************************************************************************)
(* react_code/agent.py: the sandbox report summarizer.                     *)
(* A token is made of word characters only (WordTokens), or it is a label, *)
(* which begins with word characters (WordHead), or it begins with a       *)
(* character that is not one.  Only DigitTokens begin with a digit.        *)
(***************************************************************************)
\* the decimal digits
DigitTokens == {"0", "1", "2", "3", "4", "5", "6", "7", "8", "9"}

\* int() of one digit
DigitVal(tok) ==
  CASE tok = "0" -> 0 [] tok = "1" -> 1 [] tok = "2" -> 2 [] tok = "3" -> 3
    [] tok = "4" -> 4 [] tok = "5" -> 5 [] tok = "6" -> 6 [] tok = "7" -> 7
    [] tok = "8" -> 8 [] tok = "9" -> 9

\* str() of a natural number
RECURSIVE DigitsOf(_)
DigitsOf(n) ==
  (IF n >= 10 THEN DigitsOf(n \div 10) ELSE <<>>) \o <<ToString(n % 10)>>

\* tokens matched whole by \w+
WordTokens ==
  DigitTokens \cup
  {"success", "SUCCESS", "Success", "failure", "FAILURE", "Failure", "timeout",
   "TIMEOUT", "exception", "unknown", "ok", "passed", "killed", "traceback",
   "boom", "e1", "e2", "e3", "e4", "e5", "assertion", "while", "calling",
   "running", "runner", "locally", "aios", "refused",
   "true", "false", "null", "json", "True", "FALSE", "observation", "reasoning",
   "worker_name", "worker_params", "code_test_runner", "code", "tests",
   "content", "message", "text", "saw", "fix", "done", "x", "y"}

\* the word characters a label token begins with ("" for any other token)
WordHead(tok) ==
  CASE tok = "Status:" -> "Status"
    [] tok = "Exit code:" -> "Exit"
    [] OTHER -> ""

\* int() of a run of digit tokens
RECURSIVE IntOf(_)
IntOf(run) ==
  IF run = <<>> THEN 0
  ELSE IntOf(SubSeq(run, 1, Len(run) - 1)) * 10 + DigitVal(run[Len(run)])

\* [ str.lower() of each token ]
LowerAll(t) == [i \in 1..Len(t) |-> Lower(t[i])]

\* the tokens a greedy \w+ takes from position k on: the word tokens, then
\* the word characters the next token begins with
WordRun(msg, k) ==
  LET e == SkipClass(msg, k, WordTokens)
  IN  Slice(msg, k, e - 1)
        \o (IF e <= Len(msg) /\ WordHead(msg[e]) # "" THEN <<WordHead(msg[e])>>
            ELSE <<>>)

\* the status of a report: re.search(r"Status:\s*(\w+)").group(1).lower(),
\* else "unknown"
SummaryStatus(msg) ==
  LET hits == {i \in 1..Len(msg) :
                 msg[i] = "Status:" /\ WordRun(msg, SkipClass(msg, i + 1, WS)) # <<>>}
  IN  IF hits = {} THEN <<"unknown">>
      ELSE LowerAll(WordRun(msg, SkipClass(msg, Min(hits) + 1, WS)))

\* the exit code: int of re.search(r"Exit code:\s*(\d+)").group(1), else
\* None; <<>> stands for None and <<n>> for the integer n
SummaryExitCode(msg) ==
  LET Digits(i) == LET k == SkipClass(msg, i + 1, WS)
                   IN  Slice(msg, k, SkipClass(msg, k, DigitTokens) - 1)
      hits == {i \in 1..Len(msg) : msg[i] = "Exit code:" /\ Digits(i) # <<>>}
  IN  IF hits = {} THEN <<>> ELSE <<IntOf(Digits(Min(hits)))>>

\* the first 5 lines of what follows "[STDERR]\n", stripped
SummaryErrHead(msg) ==
  LET hits == {i \in 1..(Len(msg) - 1) : msg[i] = "[STDERR]" /\ msg[i + 1] = "NL"}
  IN  IF hits = {} THEN <<>>
      ELSE LET lines == SplitLines(Strip(Slice(msg, Min(hits) + 2, Len(msg))))
           IN  JoinLines(Slice(lines, 1, Min({5, Len(lines)})))

\* ReActAgent._summarize_tool_output
SummarizeToolOutput(msg) ==
  [status |-> SummaryStatus(msg),
   exit_code |-> SummaryExitCode(msg),
   error_head |-> SummaryErrHead(msg)]

\* the exception text handed on as if it were the tool's report
RawException(aios, e) == e

\* the report _run_tool_local / _run_tool_aios build from an exception e
SyntheticFailure(aios, e) ==
  <<"Status:", "SP", "failure", "NL", "Exit code:", "SP", "-", "1", "NL", "NL",
    "[STDOUT]", "NL", "NL", "[STDERR]", "NL", "exception", "SP", "while", "SP",
    IF aios THEN "calling" ELSE "running", "SP", "runner", "SP",
    IF aios THEN "aios" ELSE "locally", ":", "SP">> \o e

(***************************************************************************)
(* react.py: the plain-text step parser of the tool-free loop.             *)
(***************************************************************************)
\* ReActAgent._parse_plain_react
ParsePlainReact(text) ==
  LET t == NormalizeNewlines(text)
      \* (?im)^\s*Candidate:\s*$ : the labels that match, and where the
      \* match ends (\s* gives back down to the last line end it crossed)
      starts == {i \in 1..Len(t) :
                   Lower(t[i]) = "candidate:" /\ AtLineStart(t, i) /\ AtLineEnd(t, i + 1)}
      MatchEnd(i) == LET m == SkipClass(t, i + 1, WS)
                     IN  IF m > Len(t) THEN Len(t) + 1
                         ELSE Max({q \in (i + 1)..(m - 1) : t[q] = "NL"})
      \* (?im)^\s*Finish:\s*(true|false)\s*$ : the labels that match, and
      \* where the match starts (the first line start before the label)
      fins == {i \in 1..Len(t) :
                 /\ Lower(t[i]) = "finish:"
                 /\ AtLineStart(t, i)
                 /\ LET k == SkipClass(t, i + 1, WS)
                    IN  k <= Len(t) /\ Lower(t[k]) \in {"true", "false"}
                        /\ AtLineEnd(t, k + 1)}
      MatchStart(i) == Min({p \in 1..i : /\ (p = 1 \/ t[p - 1] = "NL")
                                         /\ \A q \in p..(i - 1) : t[q] \in WS})
      candidate ==
        IF starts = {} THEN <<>>
        ELSE IF fins = {}
             THEN StripChars(Slice(t, MatchEnd(Min(starts)), Len(t)), {"NL"})
             ELSE StripChars(Slice(t, MatchEnd(Min(starts)), MatchStart(Min(fins)) - 1),
                             {"NL"})
  IN  [thought |-> LabelledLine(t, "thought:"),
       candidate |-> candidate,
       finish |-> FinishWord(t, "finish:", {"true", "false"}) = "true"]

(***************************************************************************)
(* JSON.  A JSON value is a tagged tuple:                                  *)
(*   <<"null">>  <<"bool", b>>  <<"num", n>>  <<"str", text>>              *)
(*   <<"arr", <<v1, ...>>>>  <<"obj", <<<<key1, v1>>, ...>>>> (insertion   *)
(*   order, keys distinct).                                                *)
(* In JSON text "Q" is one double quote, "BT" one backtick, "ESC_N" the    *)
(* two characters backslash n, "ESC_Q" backslash quote, "ESC_T" backslash  *)
(* t, "ESC_R" backslash r.  JSON text of the model holds no other          *)
(* backslash, no ".", no exponent, no NaN/Infinity.                        *)
(***************************************************************************)
JNull == <<"null">>
JBool(b) == <<"bool", b>>
JNum(n) == <<"num", n>>
JStr(text) == <<"str", text>>
JArr(elems) == <<"arr", elems>>
JObj(pairs) == <<"obj", pairs>>

IsObj(v) == v[1] = "obj"
IsStr(v) == v[1] = "str"

\* dict.keys() as a set
ObjKeys(o) == {o[2][i][1] : i \in 1..Len(o[2])}

\* dict[key]
ObjGet(o, key) == o[2][CHOOSE i \in 1..Len(o[2]) : o[2][i][1] = key][2]

\* d[key] = val on the pairs of a dict: a new key goes last, an old one
\* keeps its place
PutKey(pairs, key, val) ==
  IF \E i \in 1..Len(pairs) : pairs[i][1] = key
  THEN [i \in 1..Len(pairs) |-> IF pairs[i][1] = key THEN <<key, val>> ELSE pairs[i]]
  ELSE Append(pairs, <<key, val>>)

\* the characters a JSON string may not hold unescaped
JsonControl == {"NL", "CR", "TAB"}

\* the string a run of string-body tokens decodes to
JsonUnescape(toks) ==
  [i \in 1..Len(toks) |->
     CASE toks[i] = "ESC_N" -> "NL"
       [] toks[i] = "ESC_Q" -> "Q"
       [] toks[i] = "ESC_T" -> "TAB"
       [] toks[i] = "ESC_R" -> "CR"
       [] OTHER -> toks[i]]

\* the body of the string literal json.dumps writes for a text
JsonEscape(text) ==
  [i \in 1..Len(text) |->
     CASE text[i] = "NL" -> "ESC_N"
       [] text[i] = "Q" -> "ESC_Q"
       [] text[i] = "TAB" -> "ESC_T"
       [] text[i] = "CR" -> "ESC_R"
       [] OTHER -> text[i]]

\* a failed parse
JFail == [ok |-> FALSE, val |-> JNull, next |-> 0]

\* json.JSONDecoder.raw_decode at position i of t: [ok, val, next]
RECURSIVE JsonValue(_, _)
RECURSIVE JsonMembers(_, _, _)
RECURSIVE JsonElements(_, _, _)
JsonValue(t, i) ==
  IF i > Len(t) THEN JFail
  ELSE IF t[i] = "Q"
  THEN LET ends == {j \in (i + 1)..Len(t) : t[j] = "Q"}
       IN  IF ends = {} THEN JFail
           ELSE LET body == Slice(t, i + 1, Min(ends) - 1)
                IN  IF \E k \in 1..Len(body) : body[k] \in JsonControl THEN JFail
                    ELSE [ok |-> TRUE, val |-> JStr(JsonUnescape(body)),
                          next |-> Min(ends) + 1]
  ELSE IF t[i] = "true" THEN [ok |-> TRUE, val |-> JBool(TRUE), next |-> i + 1]
  ELSE IF t[i] = "false" THEN [ok |-> TRUE, val |-> JBool(FALSE), next |-> i + 1]
  ELSE IF t[i] = "null" THEN [ok |-> TRUE, val |-> JNull, next |-> i + 1]
  ELSE IF t[i] \in DigitTokens
  THEN LET e == IF t[i] = "0" THEN i + 1 ELSE SkipClass(t, i, DigitTokens)
       IN  [ok |-> TRUE, val |-> JNum(IntOf(Slice(t, i, e - 1))), next |-> e]
  ELSE IF t[i] = "-" /\ i < Len(t) /\ t[i + 1] \in DigitTokens
  THEN LET e == IF t[i + 1] = "0" THEN i + 2 ELSE SkipClass(t, i + 1, DigitTokens)
       IN  [ok |-> TRUE, val |-> JNum(0 - IntOf(Slice(t, i + 1, e - 1))), next |-> e]
  ELSE IF t[i] = "{"
  THEN LET k == SkipClass(t, i + 1, WS)
       IN  IF k <= Len(t) /\ t[k] = "}"
           THEN [ok |-> TRUE, val |-> JObj(<<>>), next |-> k + 1]
           ELSE JsonMembers(t, k, <<>>)
  ELSE IF t[i] = "["
  THEN LET k == SkipClass(t, i + 1, WS)
       IN  IF k <= Len(t) /\ t[k] = "]"
           THEN [ok |-> TRUE, val |-> JArr(<<>>), next |-> k + 1]
           ELSE JsonElements(t, k, <<>>)
  ELSE JFail

\* the members of an object from a key at position i on
JsonMembers(t, i, acc) ==
  IF i > Len(t) \/ t[i] # "Q" THEN JFail
  ELSE LET key == JsonValue(t, i)
       IN  IF ~key.ok THEN JFail
           ELSE LET c == SkipClass(t, key.next, WS)
                IN  IF c > Len(t) \/ t[c] # ":" THEN JFail
                    ELSE LET v == JsonValue(t, SkipClass(t, c + 1, WS))
                         IN  IF ~v.ok THEN JFail
                             ELSE LET d == SkipClass(t, v.next, WS)
                                      now == PutKey(acc, key.val[2], v.val)
                                  IN  IF d > Len(t) THEN JFail
                                      ELSE IF t[d] = "}"
                                      THEN [ok |-> TRUE, val |-> JObj(now), next |-> d + 1]
                                      ELSE IF t[d] = ","
                                      THEN JsonMembers(t, SkipClass(t, d + 1, WS), now)
                                      ELSE JFail

\* the elements of an array from a value at position i on
JsonElements(t, i, acc) ==
  LET v == JsonValue(t, i)
  IN  IF ~v.ok THEN JFail
      ELSE LET d == SkipClass(t, v.next, WS)
               now == Append(acc, v.val)
           IN  IF d > Len(t) THEN JFail
               ELSE IF t[d] = "]" THEN [ok |-> TRUE, val |-> JArr(now), next |-> d + 1]
               ELSE IF t[d] = "," THEN JsonElements(t, SkipClass(t, d + 1, WS), now)
               ELSE JFail

\* what json.loads makes of raw_decode's result v on t: the whole text must
\* be one value between white space
LoadsResult(t, v) ==
  IF v.ok /\ SkipClass(t, v.next, WS) > Len(t)
  THEN [ok |-> TRUE, val |-> v.val]
  ELSE [ok |-> FALSE, val |-> JNull]

\* json.loads: [ok, val]
JsonLoads(t) == LoadsResult(t, JsonValue(t, SkipClass(t, 1, WS)))

\* json.dumps (default separators, ensure_ascii=False)
RECURSIVE JsonDumps(_)
RECURSIVE DumpItems(_, _)
JsonDumps(v) ==
  CASE v[1] = "null" -> <<"null">>
    [] v[1] = "bool" -> IF v[2] THEN <<"true">> ELSE <<"false">>
    [] v[1] = "num" -> IF v[2] < 0 THEN <<"-">> \o DigitsOf(0 - v[2]) ELSE DigitsOf(v[2])
    [] v[1] = "str" -> <<"Q">> \o JsonEscape(v[2]) \o <<"Q">>
    [] v[1] = "arr" -> <<"[">> \o DumpItems(v[2], FALSE) \o <<"]">>
    [] v[1] = "obj" -> <<"{">> \o DumpItems(v[2], TRUE) \o <<"}">>

\* the items of a list or dict, separated by ", "
DumpItems(items, keyed) ==
  IF items = <<>> THEN <<>>
  ELSE (IF keyed
        THEN <<"Q">> \o JsonEscape(items[1][1]) \o <<"Q", ":", "SP">>
               \o JsonDumps(items[1][2])
        ELSE JsonDumps(items[1]))
       \o (IF Len(items) = 1 THEN <<>> ELSE <<",", "SP">> \o DumpItems(Tail(items), keyed))

(***************************************************************************)
(* cerebrum/utils/utils.py: the structured output resolver.                *)
(***************************************************************************)
\* the start of every run of three `mark` tokens in t
Triples(t, mark) ==
  {i \in 1..(Len(t) - 2) : t[i] = mark /\ t[i + 1] = mark /\ t[i + 2] = mark}

\* re.search(r'<mark x 3>(?:json)?\s*(.*?)\s*<mark x 3>', t, DOTALL): the
\* text becomes group(1).strip() when the pattern matches
StripBlock(t, mark) ==
  LET opens == Triples(t, mark)
      a == IF opens = {} THEN 0
           ELSE IF Min(opens) + 3 <= Len(t) /\ t[Min(opens) + 3] = "json"
                THEN Min(opens) + 4 ELSE Min(opens) + 3
      closes == IF opens = {} THEN {} ELSE {j \in opens : j >= a}
  IN  IF closes = {} THEN t ELSE Strip(Slice(t, a, Min(closes) - 1))

\* the lookahead (?=\s*[:,\[\]{}]|$) at position i
FixLookahead(t, i) ==
  \/ LET k == SkipClass(t, i, WS)
     IN  k <= Len(t) /\ t[k] \in {":", ",", "[", "]", "{", "}"}
  \/ i = Len(t) + 1
  \/ i = Len(t) /\ t[i] = "NL"

\* re.sub(r'`([^`]*?)`(?=\s*[:,\[\]{}]|$)', r'"\1"', t) from position i on
RECURSIVE BacktickFix(_, _)
BacktickFix(t, i) ==
  IF i > Len(t) THEN <<>>
  ELSE LET ends == {j \in (i + 1)..Len(t) : t[j] = "BT"}
       IN  IF t[i] = "BT" /\ ends # {} /\ FixLookahead(t, Min(ends) + 1)
           THEN <<"Q">> \o Slice(t, i + 1, Min(ends) - 1) \o <<"Q">>
                  \o BacktickFix(t, Min(ends) + 1)
           ELSE LET n == IF t[i] = "BT" THEN i + 1
                         ELSE Min({j \in i..Len(t) : t[j] = "BT"} \cup {Len(t) + 1})
                IN  Slice(t, i, n - 1) \o BacktickFix(t, n)

\* re.search(r"\{.*\}", t, DOTALL).group(0): from the first "{" to the last
\* "}" after it; <<>> when there is none
BraceSpan(t) ==
  LET opens == {i \in 1..Len(t) : t[i] = "{"}
      closes == IF opens = {} THEN {} ELSE {j \in (Min(opens) + 1)..Len(t) : t[j] = "}"}
  IN  IF closes = {} THEN <<>> ELSE Slice(t, Min(opens), Max(closes))

\* the first position at or after `from` where a heuristic pattern can start
\* (a double quote); Len(t) + 1 when there is none
NextQuote(t, from) ==
  LET qs == {j \in from..Len(t) : t[j] \in {"Q", "ESC_Q"}}
  IN  IF qs = {} THEN Len(t) + 1 ELSE Min(qs)

\* where the key of a heuristic pattern "(\w+)"\s*:\s* that starts at i
\* ends: the position after the white space behind the colon (0: no match)
HeurKeyEnd(t, i) ==
  IF i > Len(t) \/ t[i] \notin {"Q", "ESC_Q"} THEN 0
  ELSE LET e == SkipClass(t, i + 1, WordTokens)
       IN  IF e = i + 1 \/ e > Len(t) \/ t[e] # "Q" THEN 0
           ELSE LET c == SkipClass(t, e + 1, WS)
                IN  IF c > Len(t) \/ t[c] # ":" THEN 0 ELSE SkipClass(t, c + 1, WS)

\* the key the pattern at i captures
HeurKey(t, i) == Slice(t, i + 1, SkipClass(t, i + 1, WordTokens) - 1)

\* for m in re.finditer(r'"(\w+)"\s*:\s*(true|false)', t, IGNORECASE), from i
RECURSIVE HeurBools(_, _, _)
HeurBools(t, i, acc) ==
  IF i > Len(t) THEN acc
  ELSE LET v == HeurKeyEnd(t, i)
       IN  IF v # 0 /\ v <= Len(t) /\ Lower(t[v]) \in {"true", "false"}
           THEN HeurBools(t, v + 1, PutKey(acc, HeurKey(t, i), JBool(Lower(t[v]) = "true")))
           ELSE HeurBools(t, NextQuote(t, i + 1), acc)

\* for m in re.finditer(r'"(\w+)"\s*:\s*"([^"]*)"', t), from i; the quote
\* that ends the value may be the quote of an escape, whose backslash
\* ("BS") then stays in the value
RECURSIVE HeurStrings(_, _, _)
HeurStrings(t, i, acc) ==
  IF i > Len(t) THEN acc
  ELSE LET v == HeurKeyEnd(t, i)
           ends == {j \in (v + 1)..Len(t) : t[j] \in {"Q", "ESC_Q"}}
       IN  IF v # 0 /\ v <= Len(t) /\ t[v] = "Q" /\ ends # {}
           THEN HeurStrings(t, Min(ends) + 1,
                            PutKey(acc, HeurKey(t, i),
                                   JStr(Slice(t, v + 1, Min(ends) - 1)
                                        \o (IF t[Min(ends)] = "ESC_Q" THEN <<"BS">>
                                            ELSE <<>>))))
           ELSE HeurStrings(t, NextQuote(t, i + 1), acc)

\* for m in re.finditer(r'"(\w+)"\s*:\s*(-?\d+(?:\.\d+)?)', t), from i
RECURSIVE HeurNumbers(_, _, _)
HeurNumbers(t, i, acc) ==
  IF i > Len(t) THEN acc
  ELSE LET v == HeurKeyEnd(t, i)
           neg == v # 0 /\ v <= Len(t) /\ t[v] = "-"
           d == IF neg THEN v + 1 ELSE v
           e == SkipClass(t, d, DigitTokens)
       IN  IF v # 0 /\ d <= Len(t) /\ t[d] \in DigitTokens
           THEN HeurNumbers(t, e,
                            PutKey(acc, HeurKey(t, i),
                                   JNum(IF neg THEN 0 - IntOf(Slice(t, d, e - 1))
                                        ELSE IntOf(Slice(t, d, e - 1)))))
           ELSE HeurNumbers(t, NextQuote(t, i + 1), acc)

\* step 0 of _parse_json_output: the text of a value that is not a string
\* (a Python object, given as the JSON value it holds)
CoerceToText(val) ==
  LET TextKeys == <<<<"content">>, <<"message">>, <<"text">>>>
      hits == IF IsObj(val)
              THEN {k \in 1..3 : TextKeys[k] \in ObjKeys(val)
                                 /\ IsStr(ObjGet(val, TextKeys[k]))}
              ELSE {}
  IN  IF hits # {} THEN ObjGet(val, TextKeys[Min(hits)])[2] ELSE JsonDumps(val)

\* steps 3 to 6 of _parse_json_output, given what json.loads made of the
\* text, of the text with its backticks fixed and of its brace span: the
\* first that decoded, else whatever the heuristic patterns extract
FirstDecoded(t, direct, fixed, brace) ==
  IF direct.ok THEN direct.val
  ELSE IF fixed.ok THEN fixed.val
  ELSE IF brace.ok THEN brace.val
  ELSE JObj(HeurNumbers(t, 1, HeurStrings(t, 1, HeurBools(t, 1, <<>>))))

\* json.loads(brace.group(0)) when the text has a brace span
LoadsBrace(span) ==
  IF span = <<>> THEN [ok |-> FALSE, val |-> JNull] ELSE JsonLoads(span)

\* _parse_json_output on a text whose fences and triple quotes are stripped
ResolveStripped(t) ==
  FirstDecoded(t, JsonLoads(t), JsonLoads(BacktickFix(t, 1)), LoadsBrace(BraceSpan(t)))

\* _parse_json_output on a text
ResolveText(text) == ResolveStripped(StripBlock(StripBlock(text, "BT"), "Q"))

\* _parse_json_output on a backend value: None, a string, or another object
ParseJsonOutput(v) ==
  IF v.kind = "none" THEN JObj(<<>>)
  ELSE IF v.kind = "text" THEN ResolveText(v.text)
  ELSE ResolveText(CoerceToText(v.val))

(***************************************************************************)
(* Inputs: task prompts, oracle replies, sandbox results.                  *)
(***************************************************************************)
\* a HumanEval prompt: an import, the header, a docstring, a body stub
TaskWithHeader ==
  <<"from typing import List", "NL", "NL", "def", "SP", "f(x):", "NL",
    "SP", "SP", "SP", "SP", "doc", "NL", "SP", "SP", "SP", "SP", "pass", "NL">>

\* a prompt with no line that starts with "def "
TaskNoHeader == <<"class", "SP", "C:", "NL", "SP", "SP", "SP", "SP", "pass", "NL">>

TaskInputs == {TaskWithHeader, TaskNoHeader}

\* a reply in the tagged tool format, Finish: yes
ReplyFull ==
  <<"Observation:", "SP", "first", "NL", "Thought:", "SP", "add", "NL",
    "Action:", "NL", "<FINAL_ANSWER>", "NL", "SP", "SP", "SP", "SP", "return",
    "SP", "x+1", "NL", "</FINAL_ANSWER>", "NL", "<TESTS>", "NL", "assert",
    "SP", "f(1)==2", "NL", "</TESTS>", "NL", "Finish:", "SP", "yes">>

\* another well-formed reply: lower-case tags, CRLF line ends, Finish: no
ReplyRevised ==
  <<"Observation:", "SP", "failed", "CR", "NL", "Thought:", "SP", "fix", "CR", "NL",
    "<final_answer>", "CR", "NL", "TAB", "return", "SP", "x", "CR", "NL",
    "</final_answer>", "CR", "NL", "<tests>", "assert", "</tests>", "CR", "NL",
    "Finish:", "SP", "No", "CR", "NL">>

\* a reply whose candidate block is never closed
ReplyUnclosed ==
  <<"Thought:", "SP", "hm", "NL", "<FINAL_ANSWER>", "NL", "return", "SP", "x",
    "NL", "Finish:", "SP", "yes", "NL">>

\* prose that matches none of the expected fields
ReplyProse == <<"I", "SP", "cannot", "SP", "help", "NL">>

\* a reply in the tool-free format, Finish: true
ReplyPlainFull ==
  <<"Thought:", "SP", "sort", "NL", "Candidate:", "NL", "<FINAL_ANSWER>", "NL",
    "SP", "SP", "SP", "SP", "return", "SP", "x+1", "NL", "</FINAL_ANSWER>", "NL",
    "Finish:", "SP", "true", "NL">>

\* a tool-free reply with an empty candidate and Finish: true
ReplyPlainEmpty ==
  <<"Thought:", "SP", "done", "NL", "Candidate:", "NL", "NL", "Finish:", "SP",
    "True", "NL">>

\* a tool-free reply with a candidate and Finish: false
ReplyPlainMore ==
  <<"Thought:", "SP", "more", "NL", "Candidate:", "SP", "NL", "SP", "SP", "SP",
    "SP", "return", "SP", "x", "NL", "NL", "Finish:", "SP", "false">>

\* the oracle texts the tagged tool-using loop is run against
ToolReplies == {ReplyFull, ReplyRevised, ReplyUnclosed, ReplyProse}

\* the oracle texts the tool-free loop is run against
PlainReplies == {ReplyPlainFull, ReplyPlainEmpty, ReplyPlainMore, ReplyProse}

\* a sandbox report of a passing run
ReportSuccess ==
  <<"Status:", "SP", "success", "NL", "Exit code:", "SP", "0", "NL", "NL",
    "[STDOUT]", "NL", "ok", "NL", "[STDERR]", "NL">>

\* a passing run reported in upper case, the status on the next line
ReportSuccessUpper ==
  <<"Status:", "NL", "SUCCESS", "NL", "Exit code:", "0", "NL">>

\* a failing run with a seven-line traceback
ReportFailure ==
  <<"Status:", "SP", "failure", "NL", "Exit code:", "SP", "1", "NL", "NL",
    "[STDOUT]", "NL", "NL", "[STDERR]", "NL", "traceback", "NL", "e1", "NL",
    "e2", "NL", "e3", "NL", "e4", "NL", "e5", "NL", "assertion", "NL">>

\* a report with no status label
ReportGarbled == <<"killed", "NL">>

\* the report texts the sandbox returns
ToolReports ==
  {ReportSuccess, ReportSuccessUpper, ReportFailure, ReportGarbled}

\* repr(e) of the exceptions a tool call raises
ToolExceptions ==
  {<<"(", "refused", ")">>,
   <<"(", "Status:", "SP", "success", "SP", "Exit code:", "SP", "0", ")">>}

\* what a backend call hands back as response_message: a text or None
BackendValues(texts) ==
  {[kind |-> "text", text |-> t] : t \in texts} \cup {[kind |-> "none", text |-> <<>>]}

\* what a tool call hands back: a report text, None, or a structured result
ToolValues ==
  {[kind |-> "text", text |-> t] : t \in ToolReports}
    \cup {[kind |-> "none", text |-> <<>>], [kind |-> "struct", text |-> <<>>]}

\* a step object of the structured format that asks for a test run
StepWithTool ==
  <<"{", "Q", "observation", "Q", ":", "SP", "Q", "saw", "Q", ",", "SP",
    "Q", "reasoning", "Q", ":", "SP", "Q", "fix", "Q", ",", "SP",
    "Q", "worker_name", "Q", ":", "SP", "Q", "code_test_runner", "Q", ",", "SP",
    "Q", "worker_params", "Q", ":", "SP", "{", "Q", "code", "Q", ":", "SP",
    "Q", "x", "Q", ",", "SP", "Q", "tests", "Q", ":", "SP", "Q", "y", "Q", "}", "}">>

\* the members of a step object that ends the loop (worker_name null)
StepFinishMembers ==
  <<"Q", "observation", "Q", ":", "SP", "Q", "done", "Q", ",", "SP",
    "Q", "reasoning", "Q", ":", "SP", "Q", "done", "Q", ",", "SP",
    "Q", "worker_name", "Q", ":", "SP", "null", ",", "SP",
    "Q", "worker_params", "Q", ":", "SP", "null">>

\* a step object that ends the loop
StepFinish == <<"{">> \o StepFinishMembers \o <<"}">>

\* the same object inside a fenced block, after a line of prose
StepFenced ==
  <<"done", "NL", "BT", "BT", "BT", "json", "NL", "{">> \o StepFinishMembers
    \o <<"}", "NL", "BT", "BT", "BT", "NL">>

\* an object with none of the step keys
StepEmpty == <<"{", "}">>

\* a JSON text that is not an object
StepList == <<"[", "]">>

\* a step object cut off after its second member: only the heuristic
\* extraction gets anything out of it
StepCut ==
  <<"{", "Q", "observation", "Q", ":", "SP", "Q", "saw", "Q", ",", "SP",
    "Q", "done", "Q", ":", "SP", "true", ",", "SP", "Q", "reasoning">>

\* the oracle texts the structured loop is run against
StrictReplies == {StepWithTool, StepFinish, StepFenced, StepEmpty, StepList, StepCut, ReplyProse}

\* what the backend hands back to the structured loop as response_message:
\* a text, None, or an already decoded object
StrictValues ==
  {[kind |-> "text", text |-> t, val |-> JNull] : t \in StrictReplies}
    \cup {[kind |-> "none", text |-> <<>>, val |-> JNull],
          [kind |-> "json", text |-> <<>>,
           val |-> JObj(<<<<<<"content">>, JStr(StepFinish)>>>>)]}

\* what the tool call of the structured loop hands back as "response"
StrictToolValues ==
  {[kind |-> "text", text |-> t] : t \in {ReportSuccess, ReportFailure}}

\* the texts the extraction turn answers with
ExtractReplies ==
  {<<"<FINAL_ANSWER>", "NL", "SP", "SP", "SP", "SP", "return", "SP", "x+1", "NL",
     "</FINAL_ANSWER>">>,
   <<>>}

(***************************************************************************)
(* The state of one agent instance and of the run() in progress on it.     *)
(***************************************************************************)
VARIABLES
  variant,          \* which ReActAgent class the instance is of
  on_aios,          \* self.on_aios
  max_steps,        \* self.max_steps
  history,          \* self.history
  runs,             \* how many times run() has been called on the instance
  task_input,       \* run's argument
  pc,               \* where run() is: idle, loop, llm, tool, extract, returned, raised
  step,             \* the loop variable (step / rounds)
  messages,         \* the transcript (local to run)
  final_candidate,  \* final_candidate / final_code / final_answer
  pending,          \* the parsed step held across the tool call (<<>> when none)
  exc,              \* the exception that left run ("none" when none)
  extract_prompt,   \* what get_final_answer put in its prompt (<<>> when not called)
  calls,            \* every backend and tool call issued in this run, in order
  replies,          \* every backend value received in this run, in order
  toolres           \* how each tool call of this run ended, in order

agentVars == <<variant, on_aios, max_steps, history, runs>>
runVars == <<task_input, pc, step, messages, final_candidate, pending, exc,
             extract_prompt>>
logVars == <<calls, replies, toolres>>
loopVars == <<agentVars, runVars, logVars>>

\* inference_multi.py: the state of main() and of its thread pool
VARIABLES
  agent_num,        \* max(1, args.agent_num): pool size and worker count
  agents,           \* agents[a]: the history of the a-th agent of the pool
  futures,          \* futures[idx]: queued, start, loop, done or raised
  rounds_done,      \* rounds_done[idx]: rounds the run of task idx has completed
  results,          \* results[idx]: <<>> (None) or the record of task idx
  main_pc,          \* where main() is: collecting, written, aborted
  output            \* what write_output_func wrote (<<>> when not called)

orchVars == <<agent_num, agents, futures, rounds_done, results, main_pc, output>>

\* aios/llm_core/utils.py: one application of the tool-call utilities
VARIABLES
  fn,               \* the utility function applied last ("none" before any)
  arg,              \* the value the first function is applied to
  ret               \* what the last function returned (<<>> before any)

utilVars == <<fn, arg, ret>>

\* run_concurrent_demo_agent.py: the process environment and the runs of
\* run_one_agent (run 0 is the warm-up, the others are gathered)
VARIABLES
  environ,          \* os.environ.get("TMPDIR") ("unset" when it has no TMPDIR)
  environ0,         \* the same before the first run
  demo_pc,          \* where main() is: idle, warmup, gather, done, aborted
  run_pc,           \* run_pc[i]: where run i is (its coroutine, then its thread)
  copies,           \* copies[i]: the copy of the agent directory guarded_run i made
  old,              \* old[i]: what _with_env saved of TMPDIR ("none": nothing)
  to_del,           \* to_del[i]: whether _with_env marked TMPDIR for deletion
  seen,             \* seen[i]: the TMPDIR the runner.run in progress read last
  raised,           \* raised[i]: what the _call in progress raised ("none": nothing)
  attempts,         \* attempts[i]: the local attempts of run_one_agent (0 outside it)
  outcomes,         \* outcomes[i]: how the calls of runner.run ended in the
                    \* run_one_agent in progress
  records           \* records[i]: the record run i returned (<<>>: none yet)

demoVars == <<environ, environ0, demo_pc, run_pc, copies, old, to_del, seen, raised,
              attempts, outcomes, records>>
vars == <<loopVars, orchVars, utilVars, demoVars>>

\* main() of run_concurrent_demo_agent.py has not been started
NoDemo ==
  /\ environ = "unset"
  /\ environ0 = "unset"
  /\ demo_pc = "idle"
  /\ run_pc = <<>>
  /\ copies = <<>>
  /\ old = <<>>
  /\ to_del = <<>>
  /\ seen = <<>>
  /\ raised = <<>>
  /\ attempts = <<>>
  /\ outcomes = <<>>
  /\ records = <<>>

\* no utility function is being applied
NoUtil == fn = "none" /\ arg = <<>> /\ ret = <<>>

\* agent.py (tagged, tool-using), react.py (tagged, tool-free) and
\* react_code.py (structured, tool-using)
Variants == {"tool", "plain", "strict"}

\* react_code.py sets self.max_steps itself; the explored limit is this
\* value capped by MaxSteps
StrictMaxSteps == 7

\* the number of step records a step prompt embeds
HistoryWindowSize == 3

\* every record handed to the prompt
WholeHistory(h) == h

\* self.history[-3:] / self.history[-self.history_window:]
HistoryWindow(h) == Slice(h, Max({1, Len(h) - HistoryWindowSize + 1}), Len(h))

\* reversed(hist)
Reversed(q) == [i \in 1..Len(q) |-> q[Len(q) + 1 - i]]

\* what the step prompt shows of the window. agent.py and react.py write
\* one line per record, latest first, with the record's round and verdict
\* fields (the clipped observation and error head and the thought length are
\* left out here); react_code.py embeds the list itself, oldest first. An
\* empty window is shown as "[]".
FormatHistoryForPrompt(v, hist) ==
  IF v = "tool"
  THEN [i \in 1..Len(hist) |->
          [round |-> Reversed(hist)[i].round, status |-> Reversed(hist)[i].status,
           exit |-> Reversed(hist)[i].exit_code, finish |-> Reversed(hist)[i].finish]]
  ELSE IF v = "plain"
  THEN [i \in 1..Len(hist) |->
          [round |-> Reversed(hist)[i].round,
           candidate_len |-> Reversed(hist)[i].candidate_len,
           finish |-> Reversed(hist)[i].finish]]
  ELSE hist

\* the system message run() starts the transcript with
SystemMessage(t) == [role |-> "system", kind |-> "system", task |-> t, window |-> <<>>]

\* the per-round user message: the step prompt around the history window
StepMessage(h) ==
  [role |-> "user", kind |-> "step", task |-> <<>>,
   window |-> FormatHistoryForPrompt(variant, HistoryWindow(h))]

\* an instance on which run() has not been called yet; main() is not
\* running
FreshInstance ==
  /\ history = <<>>
  /\ runs = 0
  /\ task_input = <<>>
  /\ pc = "idle"
  /\ step = 0
  /\ messages = <<>>
  /\ final_candidate = <<>>
  /\ pending = <<>>
  /\ exc = "none"
  /\ extract_prompt = <<>>
  /\ calls = <<>>
  /\ replies = <<>>
  /\ toolres = <<>>
  /\ agent_num = 1
  /\ agents = <<>>
  /\ futures = <<>>
  /\ rounds_done = <<>>
  /\ results = <<>>
  /\ main_pc = "idle"
  /\ output = <<>>

\* ReActAgent.__init__: a fresh instance of one of the three classes
Init ==
  /\ variant \in Variants
  /\ on_aios \in BOOLEAN
  /\ max_steps \in (IF variant = "strict" THEN {Min({StrictMaxSteps, MaxSteps})}
                    ELSE 0..MaxSteps)
  /\ FreshInstance
  /\ NoUtil
  /\ NoDemo

\* run() is entered: the code before the loop. agent.py and react.py clear
\* self.history first; react_code.py does not touch it
RunStart(t) ==
  /\ pc \in {"idle", "returned", "raised"}
  /\ runs < MaxRuns
  /\ runs' = runs + 1
  /\ task_input' = t
  /\ history' = IF variant = "strict" THEN history ELSE <<>>
  /\ step' = 0
  /\ final_candidate' = <<>>
  /\ pending' = <<>>
  /\ extract_prompt' = <<>>
  /\ calls' = <<>>
  /\ replies' = <<>>
  /\ toolres' = <<>>
  /\ IF variant = "tool" /\ ExtractDefHeader(t) = <<>>
     THEN /\ pc' = "raised"
          /\ exc' = "ValueError"
          /\ messages' = <<>>
     ELSE /\ pc' = "loop"
          /\ exc' = "none"
          /\ messages' = <<SystemMessage(t)>>
  /\ UNCHANGED <<variant, on_aios, max_steps, orchVars, utilVars, demoVars>>

\* a transcript that keeps one user turn: the new prompt takes the place of
\* the previous one
ReplaceTurn(msgs, m) ==
  IF Len(msgs) > 1 THEN [msgs EXCEPT ![Len(msgs)] = m] ELSE Append(msgs, m)

\* messages.append({"role": "user", "content": step_prompt})
AppendTurn(msgs, m) == Append(msgs, m)

\* the loop head with rounds left: the step prompt is appended and the
\* backend call is issued
RoundStart ==
  /\ pc = "loop"
  /\ step < max_steps
  /\ messages' = AppendTurn(messages, StepMessage(history))
  /\ calls' = Append(calls, [call |-> "llm", round |-> step])
  /\ pc' = "llm"
  /\ UNCHANGED <<agentVars, task_input, step, final_candidate, pending, exc,
                 extract_prompt, replies, toolres, orchVars, utilVars, demoVars>>

\* the loop head with no round left: run returns the held candidate
Exhausted ==
  /\ pc = "loop"
  /\ step >= max_steps
  /\ pc' = "returned"
  /\ UNCHANGED <<agentVars, task_input, step, messages, final_candidate, pending,
                 exc, extract_prompt, logVars, orchVars, utilVars, demoVars>>

\* a backend call (a round's, or the extraction turn's) raises: nothing in
\* run catches it
BackendRaises ==
  /\ pc \in {"llm", "extract"}
  /\ pc' = "raised"
  /\ exc' = "BackendError"
  /\ UNCHANGED <<agentVars, task_input, step, messages, final_candidate, pending,
                 extract_prompt, logVars, orchVars, utilVars, demoVars>>

\* the other policy for a round without a candidate: keep the one held
KeepPrevious(held, candidate) == IF candidate = <<>> THEN held ELSE candidate

\* final_candidate = candidate / final_code = cand: the value held after a
\* round, given the value held before it and the round's parse
HeldCandidate(held, candidate) == candidate

\* agent.py: the backend call returns; the reply is parsed, the candidate is
\* held, the program is assembled and the tool call is issued
ToolLoopReply(v) ==
  /\ variant = "tool"
  /\ pc = "llm"
  /\ LET raw == v.text   \* _call_llm: raw or ""
         step_obj == ParseReactStep(raw)
         full_code == BuildFullCode(task_input, ExtractDefHeader(task_input),
                                    step_obj.body)
     IN  /\ final_candidate' = HeldCandidate(final_candidate, step_obj.candidate)
         /\ pending' = <<[observation |-> step_obj.observation,
                          thought |-> step_obj.thought,
                          finish |-> step_obj.finish,
                          code |-> full_code,
                          tests |-> step_obj.tests]>>
  /\ replies' = Append(replies, v)
  /\ calls' = Append(calls, [call |-> "tool", round |-> step])
  /\ pc' = "tool"
  /\ UNCHANGED <<agentVars, task_input, step, messages, exc, extract_prompt,
                 toolres, orchVars, utilVars, demoVars>>

\* a record store that keeps only the latest record
OverwriteRecord(h, rec) == IF h = <<>> THEN <<rec>> ELSE [h EXCEPT ![Len(h)] = rec]

\* self.history.append(rec)
AppendRecord(h, rec) == Append(h, rec)

\* the test agent.py leaves commented out: success, the finish flag and a
\* held candidate together
StopsOnFinish(status, finish, candidate) ==
  status = <<"success">> /\ finish /\ candidate # <<>>

\* a test that takes any status the summary found for a verdict
StopsOnKnown(status, finish, candidate) == status # <<"unknown">>

\* the termination test of agent.py on a round's summary status
StopsOn(status, finish, candidate) == status = <<"success">>

\* agent.py: _run_tool has a raw message; it is summarized, the step record
\* is appended and the termination test is made
ToolRoundEnd(raw_msg) ==
  LET sum == SummarizeToolOutput(raw_msg)
  IN  /\ history' = AppendRecord(history,
                           [round |-> step,
                            observation |-> pending[1].observation,
                            thought |-> pending[1].thought,
                            finish |-> pending[1].finish,
                            status |-> sum.status,
                            exit_code |-> sum.exit_code,
                            error_head |-> sum.error_head])
      /\ pending' = <<>>
      /\ IF StopsOn(sum.status, pending[1].finish, final_candidate)
         THEN pc' = "returned" /\ step' = step
         ELSE pc' = "loop" /\ step' = step + 1
      /\ UNCHANGED <<variant, on_aios, max_steps, runs, task_input, messages,
                     final_candidate, exc, extract_prompt, calls, replies, orchVars, utilVars, demoVars>>

\* agent.py: the tool call returns a value
ToolReturns(v) ==
  /\ variant = "tool"
  /\ pc = "tool"
  /\ toolres' = Append(toolres, v.kind)
  /\ IF v.kind = "text" \/ (on_aios /\ v.kind = "none")
     THEN ToolRoundEnd(v.text)   \* _run_tool_aios: response_message or ""
     ELSE \* re.search on a value that is not a string
          /\ pc' = "raised"
          /\ exc' = "TypeError"
          /\ UNCHANGED <<agentVars, task_input, step, messages, final_candidate,
                         pending, extract_prompt, calls, replies, orchVars, utilVars, demoVars>>

\* agent.py: the tool call raises; the except clause builds a failure report
ToolRaises(e) ==
  /\ variant = "tool"
  /\ pc = "tool"
  /\ toolres' = Append(toolres, "raised")
  /\ ToolRoundEnd(SyntheticFailure(on_aios, e))

\* a test that stops on the finish flag alone
PlainStopsOnFinish(finish, candidate) == finish

\* a test that stops on any candidate, finished or not
PlainStopsOnCandidate(finish, candidate) == candidate # <<>>

\* the termination test of react.py on a round's parse
PlainStopsOn(finish, candidate) == finish /\ candidate # <<>>

\* react.py: the backend call returns; the reply is parsed, the step record
\* is appended, the candidate is held and the termination test is made
PlainLoopReply(v) ==
  /\ variant = "plain"
  /\ pc = "llm"
  /\ replies' = Append(replies, v)
  /\ IF on_aios /\ v.kind = "none"
     THEN \* text.replace on None
          /\ pc' = "raised"
          /\ exc' = "AttributeError"
          /\ UNCHANGED <<agentVars, task_input, step, messages, final_candidate,
                         pending, extract_prompt, calls, toolres, orchVars, utilVars, demoVars>>
     ELSE LET step_obj == ParsePlainReact(v.text)   \* raw or ""
          IN  /\ history' = AppendRecord(history,
                                   [round |-> step,
                                    thought |-> step_obj.thought,
                                    candidate_len |-> Len(step_obj.candidate),
                                    finish |-> step_obj.finish])
              /\ final_candidate' = HeldCandidate(final_candidate, step_obj.candidate)
              /\ IF PlainStopsOn(step_obj.finish, step_obj.candidate)
                 THEN pc' = "returned" /\ step' = step
                 ELSE pc' = "loop" /\ step' = step + 1
              /\ UNCHANGED <<variant, on_aios, max_steps, runs, task_input,
                             messages, pending, exc, extract_prompt, calls,
                             toolres, orchVars, utilVars, demoVars>>

\* the keys run reads from the resolved step
StepKeys == {<<"observation">>, <<"reasoning">>, <<"worker_name">>, <<"worker_params">>}

\* step["observation"] ... step["worker_params"] on the resolver's result:
\* the exception the subscripts raise ("none" when all four succeed)
StepFieldError(step_obj) ==
  IF ~IsObj(step_obj) THEN "TypeError"
  ELSE IF ~(StepKeys \subseteq ObjKeys(step_obj)) THEN "KeyError"
  ELSE "none"

\* react_code.py: run goes on with the resolved step of the reply: its four
\* fields are read; a null worker_name appends the closing record and issues
\* the extraction call, anything else issues the tool call
StrictStep(step_obj) ==
  IF StepFieldError(step_obj) # "none"
  THEN /\ pc' = "raised"
       /\ exc' = StepFieldError(step_obj)
       /\ UNCHANGED <<agentVars, task_input, step, messages, final_candidate,
                      pending, extract_prompt, calls, toolres, orchVars, utilVars, demoVars>>
  ELSE IF ObjGet(step_obj, <<"worker_name">>) = JNull
  THEN /\ history' = AppendRecord(history,
                            [round |-> step,
                             observation |-> ObjGet(step_obj, <<"observation">>),
                             thought |-> ObjGet(step_obj, <<"reasoning">>),
                             called_worker |-> JNull,
                             called_worker_params |-> JNull,
                             info |-> JNull])
       /\ extract_prompt' = <<[history |-> history', task |-> task_input]>>
       /\ calls' = Append(calls, [call |-> "extract", round |-> step])
       /\ pc' = "extract"
       /\ UNCHANGED <<variant, on_aios, max_steps, runs, task_input, step,
                      messages, final_candidate, pending, exc, toolres, orchVars, utilVars, demoVars>>
  ELSE /\ pending' = <<[observation |-> ObjGet(step_obj, <<"observation">>),
                        thought |-> ObjGet(step_obj, <<"reasoning">>),
                        called_worker |-> ObjGet(step_obj, <<"worker_name">>),
                        called_worker_params |-> ObjGet(step_obj, <<"worker_params">>),
                        request |-> JsonDumps(ObjGet(step_obj, <<"worker_params">>))]>>
       /\ calls' = Append(calls, [call |-> "tool", round |-> step])
       /\ pc' = "tool"
       /\ UNCHANGED <<agentVars, task_input, step, messages, final_candidate,
                      exc, extract_prompt, toolres, orchVars, utilVars, demoVars>>

\* react_code.py: the backend call returns; the reply is resolved and the
\* round goes on with the step
StrictLoopReply(v) ==
  /\ variant = "strict"
  /\ pc = "llm"
  /\ replies' = Append(replies, v)
  /\ StrictStep(ParseJsonOutput(v))

\* react_code.py: the tool call returns; its response goes into the step
\* record as it is and the next round starts
StrictToolReturns(v) ==
  /\ variant = "strict"
  /\ pc = "tool"
  /\ toolres' = Append(toolres, v.kind)
  /\ history' = AppendRecord(history,
                       [round |-> step,
                        observation |-> pending[1].observation,
                        thought |-> pending[1].thought,
                        called_worker |-> pending[1].called_worker,
                        called_worker_params |-> pending[1].called_worker_params,
                        info |-> v])
  /\ pending' = <<>>
  /\ step' = step + 1
  /\ pc' = "loop"
  /\ UNCHANGED <<variant, on_aios, max_steps, runs, task_input, messages,
                 final_candidate, exc, extract_prompt, calls, replies, orchVars, utilVars, demoVars>>

\* react_code.py: the tool call raises; run has no handler around it
StrictToolRaises ==
  /\ variant = "strict"
  /\ pc = "tool"
  /\ toolres' = Append(toolres, "raised")
  /\ pc' = "raised"
  /\ exc' = "ToolError"
  /\ UNCHANGED <<agentVars, task_input, step, messages, final_candidate, pending,
                 extract_prompt, calls, replies, orchVars, utilVars, demoVars>>

\* react_code.py: get_final_answer's backend call returns; its text is the
\* final answer and the loop is left
ExtractReturns(t) ==
  /\ pc = "extract"
  /\ final_candidate' = t
  /\ pc' = "returned"
  /\ UNCHANGED <<agentVars, task_input, step, messages, pending, exc,
                 extract_prompt, logVars, orchVars, utilVars, demoVars>>

Next ==
  \/ \E t \in TaskInputs : RunStart(t)
  \/ RoundStart
  \/ Exhausted
  \/ BackendRaises
  \/ \E v \in BackendValues(ToolReplies) : ToolLoopReply(v)
  \/ \E v \in ToolValues : ToolReturns(v)
  \/ \E e \in ToolExceptions : ToolRaises(e)
  \/ \E v \in BackendValues(PlainReplies) : PlainLoopReply(v)
  \/ \E v \in StrictValues : StrictLoopReply(v)
  \/ \E v \in StrictToolValues : StrictToolReturns(v)
  \/ StrictToolRaises
  \/ \E t \in ExtractReplies : ExtractReturns(t)

Spec == Init /\ [][Next]_vars

\* the same loops given enough rounds for the history to outgrow the
\* window, against an oracle and a sandbox that keep every variant going
LongInit ==
  /\ variant \in Variants
  /\ on_aios \in BOOLEAN
  /\ max_steps = (IF variant = "strict" THEN Min({StrictMaxSteps, LongSteps})
                  ELSE LongSteps)
  /\ FreshInstance
  /\ NoUtil
  /\ NoDemo

\* the oracle replies and sandbox reports of the long runs
LongInputs ==
  [replies |-> {v \in BackendValues(ToolReplies) :
                  v.kind = "text" /\ v.text \in {ReplyRevised, ReplyProse}},
   reports |-> {v \in ToolValues :
                  v.kind = "text" /\ v.text \in {ReportFailure, ReportGarbled}},
   plain |-> {v \in BackendValues(PlainReplies) :
                v.kind = "text" /\ v.text \in {ReplyPlainMore, ReplyPlainEmpty}},
   steps |-> {v \in StrictValues :
                v.kind = "text" /\ v.text \in {StepWithTool, StepFinish}},
   responses |-> {v \in StrictToolValues : v.text = ReportFailure}]

LongNext ==
  \/ RunStart(TaskWithHeader)
  \/ RoundStart
  \/ Exhausted
  \/ \E v \in LongInputs.replies : ToolLoopReply(v)
  \/ \E v \in LongInputs.reports : ToolReturns(v)
  \/ \E v \in LongInputs.plain : PlainLoopReply(v)
  \/ \E v \in LongInputs.steps : StrictLoopReply(v)
  \/ \E v \in LongInputs.responses : StrictToolReturns(v)
  \/ \E t \in ExtractReplies : ExtractReturns(t)

LongSpec == LongInit /\ [][LongNext]_vars

(***************************************************************************)
(* inference_multi.py: main() fans the items out over a pool of agents.     *)
(* A task's run() is seen here by what it does to its agent: it clears the  *)
(* history, appends one record per round, and returns or raises.            *)
(***************************************************************************)
Tasks == 0..(NumTasks - 1)

\* agents[idx % len(agents)], the pool indexed from 1
AgentOf(idx) == (idx % agent_num) + 1

\* the tasks a worker thread is executing
InProgress == {i \in Tasks : futures[i] \in {"start", "loop"}}

\* the record process_one_with_agent returns for task idx
ResultRecord(idx) == [task_id |-> idx, completion |-> idx]

\* self.agent_name of the three agent classes
AgentName == "react"

\* parse_result: what lies between the first opening and the first closing
\* wrapper tag, "" when either is missing
ParseResult(result) ==
  LET opens == {i \in 1..Len(result) : result[i] = "<FINAL_ANSWER>"}
      closes == {i \in 1..Len(result) : result[i] = "</FINAL_ANSWER>"}
  IN  IF opens = {} \/ closes = {} THEN <<>>
      ELSE Slice(result, Min(opens) + 1, Min(closes) - 1)

\* process_one_with_agent: the completion it records for what run returned
Completion(result) ==
  IF AgentName = "react_plain" THEN ParseResult(result) ELSE result

\* main() up to the end of the submit loop: the pool is built and every
\* item is queued on the executor
OrchInit ==
  /\ variant = "tool"
  /\ on_aios = TRUE
  /\ max_steps \in 1..MaxSteps
  /\ history = <<>>
  /\ runs = 0
  /\ task_input = <<>>
  /\ pc = "idle"
  /\ step = 0
  /\ messages = <<>>
  /\ final_candidate = <<>>
  /\ pending = <<>>
  /\ exc = "none"
  /\ extract_prompt = <<>>
  /\ calls = <<>>
  /\ replies = <<>>
  /\ toolres = <<>>
  /\ agent_num \in 1..MaxAgents
  /\ agents = [a \in 1..agent_num |-> <<>>]
  /\ futures = [i \in Tasks |-> "queued"]
  /\ rounds_done = [i \in Tasks |-> 0]
  /\ results = [i \in Tasks |-> <<>>]
  /\ main_pc = "collecting"
  /\ output = <<>>
  /\ NoUtil
  /\ NoDemo

\* ThreadPoolExecutor: a free worker takes the oldest queued item and calls
\* process_one_with_agent, which enters agent.run
WorkerTakes(idx) ==
  /\ futures[idx] = "queued"
  /\ \A j \in Tasks : j < idx => futures[j] # "queued"
  /\ Cardinality(InProgress) < agent_num
  /\ futures' = [futures EXCEPT ![idx] = "start"]
  /\ UNCHANGED <<loopVars, utilVars, demoVars, agent_num, agents, rounds_done, results, main_pc, output>>

\* run's first statement: self.history.clear()
OrchRunClears(idx) ==
  /\ futures[idx] = "start"
  /\ agents' = [agents EXCEPT ![AgentOf(idx)] = <<>>]
  /\ futures' = [futures EXCEPT ![idx] = "loop"]
  /\ UNCHANGED <<loopVars, utilVars, demoVars, agent_num, rounds_done, results, main_pc, output>>

\* a round of the run of task idx ends: self.history.append(...)
OrchRunAppends(idx) ==
  /\ futures[idx] = "loop"
  /\ rounds_done[idx] < max_steps
  /\ agents' = [agents EXCEPT ![AgentOf(idx)] =
                  Append(@, [task |-> idx, round |-> rounds_done[idx]])]
  /\ rounds_done' = [rounds_done EXCEPT ![idx] = @ + 1]
  /\ UNCHANGED <<loopVars, utilVars, demoVars, agent_num, futures, results, main_pc, output>>

\* run returns (after any round) and process_one_with_agent returns its
\* record: the future holds a result
OrchRunReturns(idx) ==
  /\ futures[idx] = "loop"
  /\ futures' = [futures EXCEPT ![idx] = "done"]
  /\ UNCHANGED <<loopVars, utilVars, demoVars, agent_num, agents, rounds_done, results, main_pc, output>>

\* run raises (the header check, a backend call): process_one_with_agent
\* has no handler, the future holds the exception
OrchRunRaises(idx) ==
  /\ futures[idx] = "loop"
  /\ futures' = [futures EXCEPT ![idx] = "raised"]
  /\ UNCHANGED <<loopVars, utilVars, demoVars, agent_num, agents, rounds_done, results, main_pc, output>>

\* a collection that fills the slots in the order of completion
CompletionOrderSlot(idx, filled) ==
  IF \E i \in Tasks : filled[i] = <<>>
  THEN Min({i \in Tasks : filled[i] = <<>>}) ELSE idx

\* idx = futures[fut]: the slot of results that the future of item idx fills
SlotOf(idx, filled) == idx

\* main's as_completed loop takes a finished future: results[idx] =
\* fut.result(), which re-raises the exception of a task that raised
Collects(idx) ==
  /\ main_pc = "collecting"
  /\ futures[idx] \in {"done", "raised"}
  /\ results[idx] = <<>>
  /\ IF futures[idx] = "done"
     THEN /\ results' = [results EXCEPT ![SlotOf(idx, results)] = <<ResultRecord(idx)>>]
          /\ main_pc' = main_pc
     ELSE /\ results' = results
          /\ main_pc' = "aborted"
  /\ UNCHANGED <<loopVars, utilVars, demoVars, agent_num, agents, futures, rounds_done, output>>

\* every future was collected: write_output_func(results, ...)
WritesOutput ==
  /\ main_pc = "collecting"
  /\ \A i \in Tasks : results[i] # <<>>
  /\ output' = <<results>>
  /\ main_pc' = "written"
  /\ UNCHANGED <<loopVars, utilVars, demoVars, agent_num, agents, futures, rounds_done, results>>

OrchNext ==
  \/ \E idx \in Tasks : WorkerTakes(idx)
  \/ \E idx \in Tasks : OrchRunClears(idx)
  \/ \E idx \in Tasks : OrchRunAppends(idx)
  \/ \E idx \in Tasks : OrchRunReturns(idx)
  \/ \E idx \in Tasks : OrchRunRaises(idx)
  \/ \E idx \in Tasks : Collects(idx)
  \/ WritesOutput

SpecOrch == OrchInit /\ [][OrchNext]_vars

(***************************************************************************)
(* aios/llm_core/utils.py: the tool-name codec, and the utilities applied  *)
(* to bounded inputs.  A tool name is a sequence of characters.            *)
(***************************************************************************)
\* every sequence over S of length at most n
SeqsUpTo(S, n) == UNION {[1..k -> S] : k \in 0..n}

\* slash_to_double_underscore / pre_process_tools on one name:
\* "__".join(tool_name.split("/")) when the name has a "/"
SlashToDoubleUnderscore(name) ==
  LET Enc[i \in 0..Len(name)] ==
        IF i = 0 THEN <<>>
        ELSE Enc[i - 1] \o (IF name[i] = "/" THEN <<"_", "_">> ELSE <<name[i]>>)
  IN  Enc[Len(name)]

\* double_underscore_to_slash on one name: name.replace("__", "/"), the
\* pairs taken from the left without overlap
RECURSIVE DoubleUnderscoreToSlash(_)
DoubleUnderscoreToSlash(name) ==
  IF name = <<>> THEN <<>>
  ELSE IF Len(name) >= 2 /\ name[1] = "_" /\ name[2] = "_"
  THEN <<"/">> \o DoubleUnderscoreToSlash(Slice(name, 3, Len(name)))
  ELSE <<name[1]>> \o DoubleUnderscoreToSlash(Slice(name, 2, Len(name)))

\* generator_tool_call_id(): a new identifier
FreshId == JStr(<<"uuid">>)

\* the value of an attribute that an object does not have
Absent == <<"absent">>

\* a decoded call: {"name", "parameters", "id"}
DecodedCall(name, params, id) ==
  JObj(<<<<<<"name">>, name>>, <<<<"parameters">>, params>>, <<<<"id">>, id>>>>)

\* a decoding that keeps the tool-call object whatever it lacks
KeepCallObject(tc) ==
  <<DecodedCall(tc.name, tc.arguments, IF tc.id = Absent THEN FreshId ELSE tc.id)>>

\* decode_litellm_tool_calls on one tool-call object tc with the attributes
\* name, arguments (of tc.function, or of tc itself) and id: arguments given
\* as JSON text are parsed when they parse; the call is kept when it has
\* both; the identifier is getattr(tool_call, "id", generator_tool_call_id())
DecodeCallObject(tc) ==
  LET loaded == IF IsStr(tc.arguments) THEN JsonLoads(tc.arguments[2])
                ELSE [ok |-> FALSE, val |-> JNull]
      params == IF loaded.ok THEN loaded.val ELSE tc.arguments
  IN  IF tc.name # JNull /\ params # JNull
      THEN <<DecodedCall(tc.name, params, IF tc.id = Absent THEN FreshId ELSE tc.id)>>
      ELSE <<>>

\* the first of the keys that the dict has ("" when it has none)
FirstKey(o, keys) ==
  LET hits == {i \in 1..Len(keys) : keys[i] \in ObjKeys(o)}
  IN  IF hits = {} THEN <<>> ELSE keys[Min(hits)]

\* decode_litellm_tool_calls, the content fallback, from entry i on: a dict
\* with a name and parameters is appended with a new identifier, a dict
\* without is passed over; an entry on which the key tests or the
\* subscripts raise (a number, a boolean, null, a string or a list holding
\* one of the key names) ends the loop, since the try is around all of it
RECURSIVE DecodeContentEntries(_, _)
DecodeContentEntries(entries, i) ==
  IF i > Len(entries) THEN <<>>
  ELSE LET tc == entries[i]
           NameKeys == <<<<"name">>, <<"function_name">>, <<"tool_name">>>>
           ParamKeys == <<<<"arguments">>, <<"parameters">>>>
           nk == IF IsObj(tc) THEN FirstKey(tc, NameKeys) ELSE <<>>
           pk == IF IsObj(tc) THEN FirstKey(tc, ParamKeys) ELSE <<>>
           HasNameWord(text) ==
             \E k \in 1..Len(text) : text[k] \in {"name", "function_name", "tool_name"}
       IN  IF IsObj(tc)
           THEN (IF nk # <<>> /\ ObjGet(tc, nk) # JNull /\ pk # <<>>
                    /\ ObjGet(tc, pk) # JNull
                 THEN <<DecodedCall(ObjGet(tc, nk), ObjGet(tc, pk), FreshId)>>
                 ELSE <<>>) \o DecodeContentEntries(entries, i + 1)
           ELSE IF tc[1] = "str" /\ ~HasNameWord(tc[2])
           THEN DecodeContentEntries(entries, i + 1)
           ELSE IF tc[1] = "arr"
                   /\ \A k \in 1..Len(tc[2]) :
                        ~(tc[2][k][1] = "str" /\ Len(tc[2][k][2]) = 1
                            /\ HasNameWord(tc[2][k][2]))
           THEN DecodeContentEntries(entries, i + 1)
           ELSE <<>>

\* decode_litellm_tool_calls(response): response.choices[0].message has
\* tool_calls (<<>> for None or an empty list) and content (a string or
\* None); a bare list of call objects is a response with no content
DecodeLitellmToolCalls(response) ==
  LET Calls[i \in 0..Len(response.tool_calls)] ==
        IF i = 0 THEN <<>> ELSE Calls[i - 1] \o DecodeCallObject(response.tool_calls[i])
      parsed == IF IsStr(response.content) THEN JsonLoads(response.content[2])
                ELSE [ok |-> FALSE, val |-> JNull]
  IN  IF response.tool_calls # <<>> THEN Calls[Len(response.tool_calls)]
      ELSE IF ~parsed.ok THEN <<>>
      ELSE IF parsed.val[1] = "arr" THEN DecodeContentEntries(parsed.val[2], 1)
      ELSE IF parsed.val[1] = "obj" THEN DecodeContentEntries(<<parsed.val>>, 1)
      ELSE <<>>

\* tool_call["id"] = generator_tool_call_id() for every entry of what
\* json.loads made of a message (a dict being taken for a list of one):
\* [ok, calls]; not ok when json.loads raises, when the value cannot be
\* iterated, or when an entry does not take the item assignment
StampIds(loaded) ==
  LET entries == IF ~loaded.ok \/ loaded.val = JStr(<<>>) THEN <<>>
                 ELSE IF loaded.val[1] = "arr" THEN loaded.val[2]
                 ELSE <<loaded.val>>
  IN  IF loaded.ok /\ \A i \in 1..Len(entries) : IsObj(entries[i])
      THEN [ok |-> TRUE,
            calls |-> [i \in 1..Len(entries) |->
                         JObj(PutKey(entries[i][2], <<"id">>, FreshId))]]
      ELSE [ok |-> FALSE, calls |-> <<>>]

\* message.replace("assistant\n\n", ""): the occurrences cannot overlap
DropAssistant(t) ==
  LET starts == {i \in 1..(Len(t) - 2) :
                   t[i] = "assistant" /\ t[i + 1] = "NL" /\ t[i + 2] = "NL"}
      kept == {i \in 1..Len(t) : \A d \in 0..2 : (i - d) \notin starts}
  IN  [k \in 1..Cardinality(kept) |->
         t[CHOOSE i \in kept : Cardinality({j \in kept : j <= i}) = k]]

\* decode_hf_tool_calls(message): the message must decode to a list of
\* dicts (iterating a dict gives its keys, which take no item assignment;
\* an empty dict has none)
DecodeHfToolCalls(message) ==
  LET loaded == JsonLoads(DropAssistant(message))
  IN  IF loaded.ok /\ loaded.val[1] = "obj"
      THEN [ok |-> loaded.val[2] = <<>>, calls |-> <<>>]
      ELSE StampIds(loaded)

\* parse_tool_calls(message): a dict is taken for a list of one; every
\* entry gets a new identifier; double_underscore_to_slash then decodes the
\* names and parses parameters given as JSON text, and raises on an entry
\* without a string name, without parameters, or with unparsable ones
ParseToolCalls(message) ==
  LET stamped == StampIds(JsonLoads(message))
      Good(c) ==
        /\ {<<"name">>, <<"parameters">>} \subseteq ObjKeys(c)
        /\ IsStr(ObjGet(c, <<"name">>))
        /\ IsStr(ObjGet(c, <<"parameters">>)) =>
             JsonLoads(ObjGet(c, <<"parameters">>)[2]).ok
      Decoded(c) ==
        LET named == PutKey(c[2], <<"name">>,
                            JStr(DoubleUnderscoreToSlash(ObjGet(c, <<"name">>)[2])))
            p == ObjGet(c, <<"parameters">>)
        IN  JObj(IF IsStr(p) THEN PutKey(named, <<"parameters">>, JsonLoads(p[2]).val)
                 ELSE named)
  IN  IF stamped.ok /\ \A i \in 1..Len(stamped.calls) : Good(stamped.calls[i])
      THEN [ok |-> TRUE,
            calls |-> [i \in 1..Len(stamped.calls) |-> Decoded(stamped.calls[i])]]
      ELSE [ok |-> FALSE, calls |-> <<>>]

\* the tool that is offered to the model, and the name pre_process_tools
\* offers it under, by which the model calls it
ToolName == <<"a", "/", "b">>
EncodedName == SlashToDoubleUnderscore(ToolName)

\* the parameters of the calls that are decoded
CallParams == JObj(<<<<<<"x">>, JNum(1)>>>>)

\* the tool-call objects of a reply: the name and the arguments are those
\* of tool_call.function, the id is that of tool_call
CallObjects ==
  {[name |-> n, arguments |-> a, id |-> i] :
     n \in {JNull, JStr(EncodedName)},
     a \in {JNull, CallParams, JStr(JsonDumps(CallParams)), JStr(<<"null">>),
            JStr(<<"x">>)},
     i \in {Absent, JNull, JStr(<<"call_1">>)}}

\* the entries of the JSON that a reply's content or a message holds
CallEntries ==
  {JObj(<<<<<<"name">>, JStr(EncodedName)>>, <<<<"arguments">>, CallParams>>,
          <<<<"id">>, JStr(<<"call_1">>)>>>>),
   JObj(<<<<<<"function_name">>, JStr(EncodedName)>>,
          <<<<"parameters">>, JStr(JsonDumps(CallParams))>>>>),
   JObj(<<<<<<"name">>, JStr(EncodedName)>>, <<<<"parameters">>, CallParams>>,
          <<<<"id">>, JNull>>>>),
   JObj(<<<<<<"name">>, JStr(EncodedName)>>>>),
   JNum(5), JStr(<<"name">>), JNull}

\* the JSON texts: one entry, or a list of at most MaxCalls entries
CallTexts ==
  {JsonDumps(v) : v \in CallEntries \cup {JArr(q) : q \in SeqsUpTo(CallEntries, MaxCalls)}}
    \cup {<<"no", "SP", "tools">>}

\* the replies decode_litellm_tool_calls is applied to: with tool-call
\* objects, or with none and a content
ResponseArgs ==
  {[kind |-> "response", val |-> [tool_calls |-> q, content |-> JNull]] :
     q \in SeqsUpTo(CallObjects, MaxCalls)}
    \cup {[kind |-> "response", val |-> [tool_calls |-> <<>>, content |-> JStr(t)]] :
            t \in CallTexts}

\* the messages parse_tool_calls and decode_hf_tool_calls are applied to
MessageArgs ==
  {[kind |-> "message", val |-> pre \o t] :
     pre \in {<<>>, <<"assistant", "NL", "NL">>}, t \in CallTexts}

\* the objects the resolver is applied to: plain, with a string "content",
\* with a string value that holds a fenced block
ResolveObjects ==
  {JObj(<<<<<<"k">>, JNum(1)>>>>),
   JObj(<<<<<<"content">>, JStr(<<"hi">>)>>>>),
   JObj(<<<<<<"code">>, JStr(<<"BT", "BT", "BT", "x", "BT", "BT", "BT">>)>>>>)}

\* a JSON text as the oracle wraps it: bare, in a fence, in triple quotes,
\* in prose
Wrapped(k, t) ==
  CASE k = 1 -> t
    [] k = 2 -> <<"BT", "BT", "BT", "json", "NL">> \o t \o <<"NL", "BT", "BT", "BT">>
    [] k = 3 -> <<"Q", "Q", "Q">> \o t \o <<"Q", "Q", "Q">>
    [] k = 4 -> <<"see", "SP">> \o t \o <<"SP", "ok">>

\* the values _parse_json_output is applied to, with the one JSON object a
\* text holds (null when it holds none): wrapped objects, JSON texts that
\* are no object, texts that are no JSON, None, and values that are no text
ResolverArgs ==
  {[kind |-> "resolve", holds |-> o,
    val |-> [kind |-> "text", text |-> Wrapped(k, JsonDumps(o)), val |-> JNull]] :
     o \in ResolveObjects, k \in 1..4}
    \cup {[kind |-> "resolve", holds |-> JNull,
            val |-> [kind |-> "text", text |-> t, val |-> JNull]] :
            t \in {<<"5">>, <<"[", "]">>, <<"null">>, <<"true">>, <<"Q", "abc", "Q">>,
                   <<>>, ReplyProse, StepCut}}
    \cup {[kind |-> "resolve", holds |-> JNull,
            val |-> [kind |-> "json", text |-> <<>>, val |-> v]] :
            v \in ResolveObjects \cup {JNum(5), JArr(<<>>), JBool(TRUE)}}
    \cup {[kind |-> "resolve", holds |-> JNull,
            val |-> [kind |-> "none", text |-> <<>>, val |-> JNull]]}

\* the sandbox reports the summarizer is applied to
ReportArgs ==
  {[kind |-> "report", val |-> r] :
     r \in SeqsUpTo({"Status:", "SP", "NL", "success", "FAILURE", "passed", "1",
                     "Exit code:"}, ReportLen)}

\* the tool names that are encoded and decoded
NameArgs ==
  {[kind |-> "name", val |-> n] : n \in SeqsUpTo({"a", "_", "/"}, NameLen) \ {<<>>}}

\* a utility function is about to be applied to one of the bounded inputs
UtilInit ==
  /\ variant = "tool"
  /\ on_aios = TRUE
  /\ max_steps = 0
  /\ FreshInstance
  /\ fn = "none"
  /\ ret = <<>>
  /\ NoDemo
  /\ \/ arg \in ReportArgs
     \/ arg \in NameArgs
     \/ arg \in ResponseArgs
     \/ arg \in MessageArgs
     \/ arg \in ResolverArgs

\* _summarize_tool_output(msg) returns
Summarizes ==
  /\ fn = "none"
  /\ arg.kind = "report"
  /\ fn' = "_summarize_tool_output"
  /\ ret' = SummarizeToolOutput(arg.val)
  /\ UNCHANGED <<loopVars, orchVars, demoVars, arg>>

\* pre_process_tools(tools) returns: the tool's name is encoded
PreProcessTools ==
  /\ fn = "none"
  /\ arg.kind = "name"
  /\ fn' = "pre_process_tools"
  /\ ret' = SlashToDoubleUnderscore(arg.val)
  /\ UNCHANGED <<loopVars, orchVars, demoVars, arg>>

\* double_underscore_to_slash(tool_calls) returns, for a call that names
\* the tool by its encoded name
DecodesName ==
  /\ fn = "pre_process_tools"
  /\ fn' = "double_underscore_to_slash"
  /\ ret' = DoubleUnderscoreToSlash(ret)
  /\ UNCHANGED <<loopVars, orchVars, demoVars, arg>>

\* decode_litellm_tool_calls(response) returns
DecodesLitellm ==
  /\ fn = "none"
  /\ arg.kind = "response"
  /\ fn' = "decode_litellm_tool_calls"
  /\ ret' = [ok |-> TRUE, calls |-> DecodeLitellmToolCalls(arg.val)]
  /\ UNCHANGED <<loopVars, orchVars, demoVars, arg>>

\* parse_tool_calls(message) returns or raises
ParsesToolCalls ==
  /\ fn = "none"
  /\ arg.kind = "message"
  /\ fn' = "parse_tool_calls"
  /\ ret' = ParseToolCalls(arg.val)
  /\ UNCHANGED <<loopVars, orchVars, demoVars, arg>>

\* decode_hf_tool_calls(message) returns or raises
DecodesHf ==
  /\ fn = "none"
  /\ arg.kind = "message"
  /\ fn' = "decode_hf_tool_calls"
  /\ ret' = DecodeHfToolCalls(arg.val)
  /\ UNCHANGED <<loopVars, orchVars, demoVars, arg>>

\* a Python value as an argument of _parse_json_output: None, a str, or
\* another object
AsArgument(v) ==
  IF v = JNull THEN [kind |-> "none", text |-> <<>>, val |-> JNull]
  ELSE IF IsStr(v) THEN [kind |-> "text", text |-> v[2], val |-> JNull]
  ELSE [kind |-> "json", text |-> <<>>, val |-> v]

\* _parse_json_output(text) returns
Resolves ==
  /\ fn = "none"
  /\ arg.kind = "resolve"
  /\ fn' = "_parse_json_output"
  /\ ret' = ParseJsonOutput(arg.val)
  /\ UNCHANGED <<loopVars, orchVars, demoVars, arg>>

\* _parse_json_output(json.dumps(r)) returns, r being what it returned
ResolvesSerialized ==
  /\ fn = "_parse_json_output"
  /\ fn' = "resolve(serialize(resolve))"
  /\ ret' = [first |-> ret,
             again |-> ParseJsonOutput(AsArgument(JStr(JsonDumps(ret))))]
  /\ UNCHANGED <<loopVars, orchVars, demoVars, arg>>

\* _parse_json_output(r) returns, r being what it returned
ResolvesResolved ==
  /\ fn = "_parse_json_output"
  /\ fn' = "resolve(resolve)"
  /\ ret' = [first |-> ret,
             again |-> ParseJsonOutput(AsArgument(ret))]
  /\ UNCHANGED <<loopVars, orchVars, demoVars, arg>>

UtilNext ==
  \/ Resolves
  \/ ResolvesSerialized
  \/ ResolvesResolved
  \/ Summarizes
  \/ PreProcessTools
  \/ DecodesName
  \/ DecodesLitellm
  \/ ParsesToolCalls
  \/ DecodesHf

UtilSpec == UtilInit /\ [][UtilNext]_vars

(***************************************************************************)
(* run_concurrent_demo_agent.py: main() runs run_one_agent once alone (the *)
(* warm-up, run 0) and then gathers NumDemoAgents runs.  Each run calls    *)
(* runner.run in a thread of its own, inside _with_env, which works on the *)
(* one os.environ of the process; the steps of _with_env are those between *)
(* which another thread can run.                                           *)
(***************************************************************************)
SUBMIT_CONCURRENCY == 8

DemoRuns == 0..NumDemoAgents

\* make_run_env(unique)["TMPDIR"]: the directory of run i
RunDir(i) == "run_" \o ToString(i)

\* the guarded runs that hold the semaphore: inside "async with sem" and
\* not ended (main() left by an exception, the tasks are cancelled)
RunsInProgress ==
  IF demo_pc # "gather" THEN {}
  ELSE {i \in DOMAIN run_pc \ {0} :
          run_pc[i] \notin {"queued", "waiting", "done", "raised"}}

\* the record of a call of runner.run that returned: ok is bool(text)
NormalRecord(how, tries) ==
  [ok |-> how = "text", attempts |-> <<tries + 1>>, error |-> FALSE]

\* the record of a first call that raised an Exception: it has the keys
\* ok, elapsed_sec, error and trace, and no attempts
ErrorRecord == [ok |-> FALSE, attempts |-> <<>>, error |-> TRUE]

DemoInit ==
  /\ variant = "tool"
  /\ on_aios = TRUE
  /\ max_steps = 0
  /\ FreshInstance
  /\ NoUtil
  /\ environ \in {"unset", "orig"}
  /\ environ0 = environ
  /\ demo_pc = "warmup"
  /\ run_pc = [i \in DemoRuns |-> "queued"]
  /\ copies = [i \in DemoRuns |-> "none"]
  /\ old = [i \in DemoRuns |-> "none"]
  /\ to_del = [i \in DemoRuns |-> FALSE]
  /\ seen = [i \in DemoRuns |-> "none"]
  /\ raised = [i \in DemoRuns |-> "none"]
  /\ attempts = [i \in DemoRuns |-> 0]
  /\ outcomes = [i \in DemoRuns |-> <<>>]
  /\ records = [i \in DemoRuns |-> <<>>]

\* the first step of a run. The warm-up: main calls run_one_agent. A
\* gathered run (the tasks take their first step in the order gather made
\* them): guarded_run copies the agent directory, then enters the semaphore
\* if it is free and calls run_one_agent, which hands _call to a thread, or
\* waits for the semaphore
RunStarts(i) ==
  /\ run_pc[i] = "queued"
  /\ \/ i = 0 /\ demo_pc = "warmup"
     \/ i > 0 /\ demo_pc = "gather" /\ \A j \in 1..(i - 1) : run_pc[j] # "queued"
  /\ copies' = IF i > 0 THEN [copies EXCEPT ![i] = "exists"] ELSE copies
  /\ run_pc' = [run_pc EXCEPT ![i] =
                  IF i > 0 /\ Cardinality(RunsInProgress) >= SUBMIT_CONCURRENCY
                  THEN "waiting" ELSE "check"]
  /\ UNCHANGED <<loopVars, orchVars, utilVars, environ, environ0, demo_pc, old, to_del,
                 seen, raised, attempts, outcomes, records>>

\* the semaphore was released: the guarded run that has waited longest
\* enters it and calls run_one_agent
Acquires(i) ==
  /\ demo_pc = "gather"
  /\ run_pc[i] = "waiting"
  /\ \A j \in DOMAIN run_pc : run_pc[j] = "waiting" => i <= j
  /\ Cardinality(RunsInProgress) < SUBMIT_CONCURRENCY
  /\ run_pc' = [run_pc EXCEPT ![i] = "check"]
  /\ UNCHANGED <<loopVars, orchVars, utilVars, environ, environ0, demo_pc, copies, old,
                 to_del, seen, raised, attempts, outcomes, records>>

\* _with_env: if k in os.environ ... else: to_del.append(k)
EnvCheck(i) ==
  /\ run_pc[i] = "check"
  /\ IF environ # "unset"
     THEN run_pc' = [run_pc EXCEPT ![i] = "read"] /\ UNCHANGED to_del
     ELSE run_pc' = [run_pc EXCEPT ![i] = "set"] /\ to_del' = [to_del EXCEPT ![i] = TRUE]
  /\ UNCHANGED <<loopVars, orchVars, utilVars, environ, environ0, demo_pc, copies, old,
                 seen, raised, attempts, outcomes, records>>

\* _with_env: old[k] = os.environ[k], a KeyError when the variable has been
\* deleted since the test
EnvRead(i) ==
  /\ run_pc[i] = "read"
  /\ IF environ # "unset"
     THEN /\ old' = [old EXCEPT ![i] = environ]
          /\ run_pc' = [run_pc EXCEPT ![i] = "set"]
          /\ UNCHANGED raised
     ELSE /\ raised' = [raised EXCEPT ![i] = "KeyError"]
          /\ run_pc' = [run_pc EXCEPT ![i] = "restore"]
          /\ UNCHANGED old
  /\ UNCHANGED <<loopVars, orchVars, utilVars, environ, environ0, demo_pc, copies, to_del,
                 seen, attempts, outcomes, records>>

\* _with_env: os.environ[k] = v, and fn is called
EnvSet(i) ==
  /\ run_pc[i] = "set"
  /\ environ' = RunDir(i)
  /\ run_pc' = [run_pc EXCEPT ![i] = "run"]
  /\ UNCHANGED <<loopVars, orchVars, utilVars, environ0, demo_pc, copies, old, to_del,
                 seen, raised, attempts, outcomes, records>>

\* runner.run reads TMPDIR
RunnerReads(i) ==
  /\ run_pc[i] = "run"
  /\ seen' = [seen EXCEPT ![i] = environ]
  /\ UNCHANGED <<loopVars, orchVars, utilVars, environ, environ0, demo_pc, run_pc, copies,
                 old, to_del, raised, attempts, outcomes, records>>

\* runner.run returns (a text, or nothing _extract_text finds a text in) or
\* raises
RunnerEnds(i, how) ==
  /\ run_pc[i] = "run"
  /\ raised' = [raised EXCEPT ![i] = how]
  /\ outcomes' = [outcomes EXCEPT ![i] = Append(@, how)]
  /\ seen' = [seen EXCEPT ![i] = "none"]
  /\ run_pc' = [run_pc EXCEPT ![i] = "restore"]
  /\ UNCHANGED <<loopVars, orchVars, utilVars, environ, environ0, demo_pc, copies, old,
                 to_del, attempts, records>>

\* _with_env, finally: the saved value is written back, or the variable
\* marked for deletion is popped
EnvRestore(i) ==
  /\ run_pc[i] = "restore"
  /\ environ' = IF old[i] # "none" THEN old[i]
                ELSE IF to_del[i] THEN "unset" ELSE environ
  /\ old' = [old EXCEPT ![i] = "none"]
  /\ to_del' = [to_del EXCEPT ![i] = FALSE]
  /\ run_pc' = [run_pc EXCEPT ![i] = "called"]
  /\ UNCHANGED <<loopVars, orchVars, utilVars, environ0, demo_pc, copies, seen, raised,
                 attempts, outcomes, records>>

\* a run_one_agent that tries again after any exception of the first call
RetryOnException(how, tries) ==
  IF how \in {"text", "empty"} THEN "record"
  ELSE IF tries = 0 THEN "retry"
  ELSE "raise"

\* what run_one_agent does with the end of _call: a SystemExit of the first
\* call is retried; an exception of the first call gives an error record;
\* an exception of the retry leaves run_one_agent; a return gives a record
CallOutcome(how, tries) ==
  IF how \in {"text", "empty"} THEN "record"
  ELSE IF tries = 0 /\ how = "SystemExit" THEN "retry"
  ELSE IF tries = 0 THEN "error"
  ELSE "raise"

\* run_one_agent is left with a record, with the error record or by an
\* exception, and its locals are gone; guarded_run's finally removes the
\* copy and the semaphore is released; the warm-up over (its record is
\* dropped: _ = await run_one_agent(...)), main() goes on to gather, or is
\* left by the exception
RunLeaves(i, what, how, tries) ==
  /\ run_pc' = [run_pc EXCEPT ![i] = IF what = "raise" THEN "raised" ELSE "done"]
  /\ records' = [records EXCEPT ![i] =
                   CASE i > 0 /\ what = "record" -> <<NormalRecord(how, tries)>>
                     [] i > 0 /\ what = "error" -> <<ErrorRecord>>
                     [] OTHER -> @]
  /\ attempts' = [attempts EXCEPT ![i] = 0]
  /\ outcomes' = [outcomes EXCEPT ![i] = <<>>]
  /\ copies' = IF i > 0 THEN [copies EXCEPT ![i] = "removed"] ELSE copies
  /\ demo_pc' = IF i > 0 THEN demo_pc
                ELSE IF what = "raise" THEN "aborted" ELSE "gather"

\* run_one_agent after await asyncio.to_thread(_call): the event loop
\* resumes it when every task of gather has taken its first step, and not
\* when main() has been left
CallEnds(i) ==
  /\ run_pc[i] = "called"
  /\ \/ i = 0 /\ demo_pc = "warmup"
     \/ i > 0 /\ demo_pc = "gather" /\ \A j \in DOMAIN run_pc : run_pc[j] # "queued"
  /\ IF CallOutcome(raised[i], attempts[i]) = "retry"
     THEN /\ run_pc' = [run_pc EXCEPT ![i] = "check"]
          /\ attempts' = [attempts EXCEPT ![i] = @ + 1]
          /\ UNCHANGED <<records, copies, demo_pc, outcomes>>
     ELSE RunLeaves(i, CallOutcome(raised[i], attempts[i]), raised[i], attempts[i])
  /\ raised' = [raised EXCEPT ![i] = "none"]
  /\ UNCHANGED <<loopVars, orchVars, utilVars, environ, environ0, old, to_del, seen>>

\* asyncio.gather returns: main() writes the records
GatherReturns ==
  /\ demo_pc = "gather"
  /\ \A i \in DOMAIN run_pc \ {0} : run_pc[i] = "done"
  /\ demo_pc' = "done"
  /\ UNCHANGED <<loopVars, orchVars, utilVars, environ, environ0, run_pc, copies, old,
                 to_del, seen, raised, attempts, outcomes, records>>

\* asyncio.gather raises the exception of a run: main() is left and
\* asyncio.run cancels the tasks that have not ended. A guarded run inside
\* the semaphore is cancelled in its try block, whose finally removes the
\* copy (the thread of its call goes on); one that waits for the semaphore
\* is cancelled outside the try block
GatherRaises ==
  /\ demo_pc = "gather"
  /\ \E i \in DOMAIN run_pc \ {0} : run_pc[i] = "raised"
  /\ demo_pc' = "aborted"
  /\ copies' = [i \in DOMAIN copies |->
                  IF i \in RunsInProgress THEN "removed" ELSE copies[i]]
  /\ UNCHANGED <<loopVars, orchVars, utilVars, environ, environ0, run_pc, old,
                 to_del, seen, raised, attempts, outcomes, records>>

\* with fewer runs than SUBMIT_CONCURRENCY no run waits for the semaphore
DemoNext ==
  \/ \E i \in DemoRuns :
       \/ RunStarts(i)
       \/ EnvCheck(i)
       \/ EnvRead(i)
       \/ EnvSet(i)
       \/ RunnerReads(i)
       \/ \E how \in {"text", "empty", "SystemExit", "Exception"} : RunnerEnds(i, how)
       \/ EnvRestore(i)
       \/ CallEnds(i)
  \/ GatherReturns
  \/ GatherRaises

SpecDemo == DemoInit /\ [][DemoNext]_vars

(***************************************************************************)
(* The same main() after the warm-up, with more runs than the semaphore    *)
(* admits.  A call of run_one_agent is one step here, from the hand-over   *)
(* of _call to its return or exception; os.environ is not followed.        *)
(***************************************************************************)
GatherRuns == 1..NumGuarded

\* how the calls of runner.run of one run end: the first returns a text, or
\* the first raises SystemExit and the retry raises an Exception
GatherOutcomes == {<<"text">>, <<"SystemExit", "Exception">>}

\* main() at asyncio.gather: the warm-up has returned
GatherInit ==
  /\ variant = "tool"
  /\ on_aios = TRUE
  /\ max_steps = 0
  /\ FreshInstance
  /\ NoUtil
  /\ environ = "unset"
  /\ environ0 = "unset"
  /\ demo_pc = "gather"
  /\ run_pc = [i \in GatherRuns |-> "queued"]
  /\ copies = [i \in GatherRuns |-> "none"]
  /\ old = [i \in GatherRuns |-> "none"]
  /\ to_del = [i \in GatherRuns |-> FALSE]
  /\ seen = [i \in GatherRuns |-> "none"]
  /\ raised = [i \in GatherRuns |-> "none"]
  /\ attempts = [i \in GatherRuns |-> 0]
  /\ outcomes = [i \in GatherRuns |-> <<>>]
  /\ records = [i \in GatherRuns |-> <<>>]

\* run_one_agent of run i from await asyncio.to_thread(_call) to its end,
\* its calls of runner.run ending as hows says
RunOneAgent(i, hows) ==
  /\ demo_pc = "gather"
  /\ run_pc[i] = "check"
  /\ \A j \in DOMAIN run_pc : run_pc[j] # "queued"
  /\ RunLeaves(i, CallOutcome(hows[Len(hows)], Len(hows) - 1), hows[Len(hows)],
               Len(hows) - 1)
  /\ UNCHANGED <<loopVars, orchVars, utilVars, environ, environ0, old, to_del, seen,
                 raised>>

GatherNext ==
  \/ \E i \in GatherRuns :
       \/ RunStarts(i)
       \/ Acquires(i)
       \/ \E hows \in GatherOutcomes : RunOneAgent(i, hows)
  \/ GatherReturns
  \/ GatherRaises

\* the event loop runs every task that is ready, and every call of
\* run_one_agent ends
SpecGather == GatherInit /\ [][GatherNext]_vars /\ WF_vars(GatherNext)

(***************************************************************************)
(* Properties of the loops (under Spec) and of main() (under SpecOrch).     *)
(***************************************************************************)
\* the last element of a non-empty sequence
Last(q) == q[Len(q)]

\* the per-round backend calls issued so far in the current run
LlmCalls == SelectSeq(calls, LAMBDA c : c.call = "llm")

\* the candidate the variant's parser finds in a backend value
ParsedCandidate(v) ==
  IF variant = "tool" THEN ParseReactStep(v.text).candidate
  ELSE ParsePlainReact(v.text).candidate

\* a backend value the tool-free loop cannot read at all: None under AIOS
Unreadable(v) == variant = "plain" /\ on_aios /\ v.kind = "none"

\* C1: in the tagged tool-using loop, a round r whose summary status is
\* 'success' is the last round: the run has returned at round r, history
\* holds exactly r+1 records, and the tool call of round r is the last call
\* the run issued (2(r+1) calls in all).
C1_SuccessStops ==
  variant = "tool" =>
    \A k \in 1..Len(history) :
      history[k].status = <<"success">> =>
        /\ k = Len(history)
        /\ history[k].round = k - 1
        /\ pc = "returned"
        /\ step = k - 1
        /\ Len(calls) = 2 * k
        /\ Last(calls) = [call |-> "tool", round |-> k - 1]

\* a run that stopped on success in round 0 with a round left and the
\* finish flag not set
C1_Witness ==
  /\ variant = "tool"
  /\ max_steps = 2
  /\ pc = "returned"
  /\ Len(history) = 1
  /\ history[1].status = <<"success">>
  /\ ~history[1].finish

\* C2: every loop variant stops after max_steps rounds: whatever the
\* oracle replies and the sandbox reports, as long as every call returns,
\* a run that entered its loop issues at most max_steps per-round backend
\* calls and is never left by an exception.
C2_StopsAfterMaxSteps ==
  /\ Len(LlmCalls) <= max_steps
  /\ pc = "raised" => exc \in {"ValueError", "BackendError", "ToolError"}

C4_HeldIsLatestParse ==
  variant \in {"tool", "plain"} /\ replies # <<>> /\ ~Unreadable(Last(replies)) =>
    final_candidate = ParsedCandidate(Last(replies))

\* a round with a candidate block followed by a round without one: the
\* held candidate is empty
C4_Witness ==
  /\ variant = "tool"
  /\ Len(replies) = 2
  /\ ParsedCandidate(replies[1]) # <<>>
  /\ ParsedCandidate(replies[2]) = <<>>
  /\ final_candidate = <<>>

\* C4 (as stated): the held candidate is the candidate of the most recent
\* round whose reply had a well-formed candidate block.
C4_HeldIsLatestWellFormed ==
  variant \in {"tool", "plain"} =>
    LET formed == {k \in 1..Len(replies) :
                     ~Unreadable(replies[k]) /\ ParsedCandidate(replies[k]) # <<>>}
    IN  formed # {} => final_candidate = ParsedCandidate(replies[Max(formed)])

\* C5: no parse failure leaves run as an exception, in any variant: a reply
\* that cannot be resolved into the expected fields never ends the run with
\* the exception of a failed field access.
C5_NoParseFailureEscapes ==
  pc = "raised" =>
    /\ exc \notin {"KeyError", "AttributeError"}
    /\ ~(variant = "strict" /\ exc = "TypeError")

C7_ToolExceptionContinues ==
  variant = "tool" =>
    \A k \in 1..Len(toolres) :
      toolres[k] = "raised" =>
        /\ k <= Len(history)
        /\ history[k].round = k - 1
        /\ history[k].status = <<"failure">>
        /\ k = Len(history) =>
             /\ step = k
             /\ pc \in {"loop", "llm", "tool", "returned", "raised"}
             /\ pc = "returned" => k = max_steps
             /\ pc = "raised" => Len(calls) > 2 * k

\* the tool call of round 0 raised and the backend call of round 1 is out
C7_Witness ==
  /\ variant = "tool"
  /\ toolres = <<"raised">>
  /\ history[1].status = <<"failure">>
  /\ pc = "llm"
  /\ step = 1

\* C8: no two run() calls in progress at the same time work on the same
\* agent: the history of a running task's agent holds exactly the records
\* that task appended.
C8_NoSharedHistory ==
  /\ \A i \in InProgress : \A j \in InProgress \ {i} : AgentOf(i) # AgentOf(j)
  /\ \A i \in Tasks :
       futures[i] = "loop" =>
         agents[AgentOf(i)]
           = [r \in 1..rounds_done[i] |-> [task |-> i, round |-> r - 1]]

\* C9: a task whose run raised is caught at the orchestration boundary:
\* main() is never aborted by it, and once every task has finished and
\* main() has ended, the record of every task that returned is in the
\* output file.
C9_SiblingsCollected ==
  /\ main_pc # "aborted"
  /\ (main_pc # "collecting" /\ \A i \in Tasks : futures[i] \in {"done", "raised"}) =>
       /\ output # <<>>
       /\ \A i \in Tasks :
            futures[i] = "done" => output[1][i] = <<ResultRecord(i)>>

\* C10: in every variant the history is empty when a run starts its first
\* round, so the first prompt of a run embeds no step record.
C10_HistoryEmptyAtRunStart ==
  /\ pc = "loop" /\ step = 0 => history = <<>>
  /\ pc = "llm" /\ step = 0 => Last(messages).window = <<>>
  /\ extract_prompt # <<>> =>
       \A k \in 1..Len(extract_prompt[1].history) :
         extract_prompt[1].history[k].round < Len(LlmCalls)
            /\ (k > 1 => extract_prompt[1].history[k - 1].round
                           < extract_prompt[1].history[k].round)

\* C11: within one run the history only grows, one record at a time at its
\* end: a step that completes a round appends exactly one record, no step
\* shortens the history, and no step changes a record already appended.
C11_HistoryGrows ==
  [][runs' = runs =>
       /\ \/ history' = history
          \/ /\ Len(history') = Len(history) + 1
             /\ SubSeq(history', 1, Len(history)) = history
             /\ pc \in {"llm", "tool"}
       /\ (pc \in {"llm", "tool"} /\ pc' \in {"loop", "returned", "extract"}) =>
            Len(history') = Len(history) + 1]_vars

\* two rounds of the tool-using loop have completed: both records are held
C11_Witness ==
  /\ variant = "tool"
  /\ Len(history) = 2
  /\ history[1].round = 0
  /\ history[2].round = 1

\* C12: the step prompt of every round embeds exactly the last
\* min(3, len(history)) step records and no other (latest first in agent.py
\* and react.py, oldest first in react_code.py), and the history itself is
\* not cut by the projection: in agent.py and react.py it holds one record
\* for every round completed so far.
C12_WindowIsLastThree ==
  pc = "llm" =>
    LET n == Len(history)
        w == Min({HistoryWindowSize, n})
        win == Last(messages).window
    IN  /\ Len(win) = w
        /\ variant = "tool" =>
             \A i \in 1..w :
               win[i] = [round |-> history[n + 1 - i].round,
                         status |-> history[n + 1 - i].status,
                         exit |-> history[n + 1 - i].exit_code,
                         finish |-> history[n + 1 - i].finish]
        /\ variant = "plain" =>
             \A i \in 1..w :
               win[i] = [round |-> history[n + 1 - i].round,
                         candidate_len |-> history[n + 1 - i].candidate_len,
                         finish |-> history[n + 1 - i].finish]
        /\ variant = "strict" => win = SubSeq(history, n - w + 1, n)
        /\ variant \in {"tool", "plain"} =>
             /\ n = step
             /\ \A k \in 1..n : history[k].round = k - 1

\* the prompt of round 4 of the tool-using loop: four records are held and
\* the prompt shows rounds 3, 2 and 1
C12_Witness ==
  /\ variant = "tool"
  /\ pc = "llm"
  /\ step = 4
  /\ Len(history) = 4
  /\ Len(Last(messages).window) = 3
  /\ Last(messages).window[1].round = 3
  /\ Last(messages).window[3].round = 1

\* C13: in react_code.py, once the tool response of a round reports status
\* success the loop is over: run has returned (or has no round left) and
\* issues no further per-round backend call or tool call.
C13_StrictStopsOnSuccess ==
  ( /\ variant = "strict"
    /\ toolres # <<>>
    /\ Last(toolres) = "text"
    /\ history # <<>>
    /\ Last(history).called_worker # JNull
    /\ SummarizeToolOutput(Last(history).info.text).status = <<"success">> )
  => \/ pc = "returned"
     \/ pc = "loop" /\ step >= max_steps

\* C14: in react_code.py a run that has returned hands back the text of the
\* extraction turn when the oracle ended the loop, and the last candidate
\* held otherwise; after exhaustion with at least one candidate sent to the
\* tool the value returned is not the initial empty string.
C14_StrictReturnsCandidate ==
  ( /\ variant = "strict"
    /\ pc = "returned"
    /\ extract_prompt = <<>>
    /\ \E k \in 1..Len(calls) : calls[k].call = "tool" )
  => final_candidate # <<>>

\* C15: in react.py the loop is over after round r exactly when the round's
\* finish flag is set and its candidate is not empty, or r = max_steps - 1;
\* every earlier round had neither, and a round with the flag set but an
\* empty candidate is followed by the next round.
C15_PlainStopsIff ==
  variant = "plain" =>
    \A k \in 1..Len(history) :
      LET stops == history[k].finish /\ history[k].candidate_len > 0
          over == pc = "returned" \/ (pc = "loop" /\ step >= max_steps)
      IN  /\ history[k].round = k - 1
          /\ k < Len(history) => ~stops /\ k < max_steps
          /\ k = Len(history) => (over <=> (stops \/ k = max_steps))
          /\ (k = Len(history) /\ stops) => pc = "returned"

\* round 0 set the finish flag with an empty candidate and round 1 was run
C15_Witness ==
  /\ variant = "plain"
  /\ Len(history) = 2
  /\ history[1].finish
  /\ history[1].candidate_len = 0

\* C16: when the sandbox reports success in round r, what the tool-using
\* loop returns, and what process_one_with_agent records as the completion,
\* is the body-only code of round r's candidate, the text that was put into
\* the program sent to the sandbox, without wrapper markup.
C16_ReturnsBodyOnly ==
  ( /\ variant = "tool"
    /\ pc = "returned"
    /\ history # <<>>
    /\ Last(history).status = <<"success">> )
  => /\ final_candidate = ParseReactStep(Last(replies).text).body
     /\ Completion(final_candidate) = ParseReactStep(Last(replies).text).body

\* C17: whatever the report text, the status the summarizer returns is one
\* of success, failure, timeout, exception, unknown.
C17_StatusInEnum ==
  fn = "_summarize_tool_output" =>
    ret.status \in {<<"success">>, <<"failure">>, <<"timeout">>, <<"exception">>,
                    <<"unknown">>}

\* C18: summarizing what the tool handed back never raises: the tool-using
\* loop is not left by the TypeError of a result that is not a text.
C18_SummarizerNeverRaises ==
  variant = "tool" => ~(pc = "raised" /\ exc = "TypeError")

\* C19: for a tool name with at most one "/", decoding the encoded name
\* gives the name back.
C19_DecodeInvertsEncode ==
  ( /\ fn = "double_underscore_to_slash"
    /\ Cardinality({i \in 1..Len(arg.val) : arg.val[i] = "/"}) <= 1 )
  => ret = arg.val

\* C20: every call that decode_litellm_tool_calls, parse_tool_calls or
\* decode_hf_tool_calls returns carries an id that is a string, never
\* missing and never null
C20_EveryCallHasId ==
  (fn \in {"decode_litellm_tool_calls", "parse_tool_calls", "decode_hf_tool_calls"}
     /\ ret.ok) =>
    \A i \in 1..Len(ret.calls) :
      /\ <<"id">> \in ObjKeys(ret.calls[i])
      /\ IsStr(ObjGet(ret.calls[i], <<"id">>))

\* a tool-call object without a name or without arguments
LacksNameOrArguments(tc) == tc.name = JNull \/ tc.arguments = JNull

\* an entry of the content's JSON that is no dict, or a dict without a name
\* key or without a parameters key
LacksNameOrParameters(e) ==
  \/ ~IsObj(e)
  \/ ObjKeys(e) \cap {<<"name">>, <<"function_name">>, <<"tool_name">>} = {}
  \/ ObjKeys(e) \cap {<<"arguments">>, <<"parameters">>} = {}

\* the reply has no tool call, or only calls that cannot be resolved
NothingToDecode(response) ==
  LET parsed == IF IsStr(response.content) THEN JsonLoads(response.content[2])
                ELSE [ok |-> FALSE, val |-> JNull]
      entries == IF parsed.val[1] = "arr" THEN parsed.val[2] ELSE <<parsed.val>>
  IN  IF response.tool_calls # <<>>
      THEN \A i \in 1..Len(response.tool_calls) :
             LacksNameOrArguments(response.tool_calls[i])
      ELSE ~parsed.ok \/ \A i \in 1..Len(entries) : LacksNameOrParameters(entries[i])

\* C21: decode_litellm_tool_calls returns and does not raise; no call it
\* returns lacks a name or parameters, a tool-call object without a name or
\* without arguments is left out, and a reply with no tool call, with
\* content that is no JSON, or with only unresolvable calls gives the empty
\* list
C21_DropsUnresolvable ==
  fn = "decode_litellm_tool_calls" =>
    /\ ret.ok
    /\ \A i \in 1..Len(ret.calls) :
         /\ {<<"name">>, <<"parameters">>} \subseteq ObjKeys(ret.calls[i])
         /\ ObjGet(ret.calls[i], <<"name">>) # JNull
         /\ ObjGet(ret.calls[i], <<"parameters">>) # JNull
    /\ arg.val.tool_calls # <<>> =>
         Len(ret.calls) <= Cardinality({i \in 1..Len(arg.val.tool_calls) :
                                          ~LacksNameOrArguments(arg.val.tool_calls[i])})
    /\ NothingToDecode(arg.val) => ret.calls = <<>>

\* a reply with one resolvable and one unresolvable tool-call object was
\* decoded to one call
C21_Witness ==
  /\ fn = "decode_litellm_tool_calls"
  /\ Len(arg.val.tool_calls) = 2
  /\ LacksNameOrArguments(arg.val.tool_calls[1])
  /\ ~LacksNameOrArguments(arg.val.tool_calls[2])
  /\ Len(ret.calls) = 1

\* C22: the parameters of every call decode_litellm_tool_calls returns are
\* a mapping, never a raw string or another value that is no mapping
C22_ParametersAreMapping ==
  fn = "decode_litellm_tool_calls" =>
    \A i \in 1..Len(ret.calls) : IsObj(ObjGet(ret.calls[i], <<"parameters">>))

\* C23: a call of the tool by the name pre_process_tools gave it is
\* returned by every decoder (decode_litellm_tool_calls for tool-call
\* objects and for content, parse_tool_calls, decode_hf_tool_calls) under
\* the tool's own slash-namespaced name
C23_EveryPathDecodesName ==
  (fn \in {"decode_litellm_tool_calls", "parse_tool_calls", "decode_hf_tool_calls"}
     /\ ret.ok) =>
    \A i \in 1..Len(ret.calls) : ObjGet(ret.calls[i], <<"name">>) = JStr(ToolName)

\* C24: whatever the input (a text, a mapping, a list, a number, None),
\* _parse_json_output returns a mapping, never a list, a number, a string,
\* a boolean or null
C24_ResolverReturnsMapping == fn = "_parse_json_output" => IsObj(ret)

\* C25: for a text that holds one well-formed JSON object, bare, in a
\* fence, in triple quotes or in prose, _parse_json_output returns that
\* object
C25_ResolvesWrappedObject ==
  (fn = "_parse_json_output" /\ arg.holds # JNull) => ret = arg.holds

\* C26: resolving the serialization of what the resolver returned, and
\* resolving what it returned, both give what it returned
C26_ResolverIdempotent ==
  fn \in {"resolve(serialize(resolve))", "resolve(resolve)"} => ret.again = ret.first

\* the white space a line begins with
LeadingSpace(line) == Slice(line, 1, SkipClass(line, 1, {"SP", "TAB"}) - 1)

\* the lines of a text that are not blank
NonBlankLines(t) ==
  LET lines == SplitLines(t)
  IN  {lines[i] : i \in {j \in 1..Len(lines) : Strip(lines[j]) # <<>>}}

\* C27: the candidate body that the tool loop holds and inserts into the
\* assembled program is normalized: every non-blank line begins with the
\* unit of four spaces and one of them with no more than that
C27_BodyIsNormalized ==
  (variant = "tool" /\ pending # <<>>) =>
    LET lines == NonBlankLines(ParseReactStep(Last(replies).text).body)
        unit == <<"SP", "SP", "SP", "SP">>
    IN  lines # {} =>
          /\ \A l \in lines : Len(LeadingSpace(l)) >= 4 /\ Slice(l, 1, 4) = unit
          /\ \E l \in lines : LeadingSpace(l) = unit

\* the oracle's last reply has no candidate block
NoCandidateBlock ==
  ~TaggedBlock(NormalizeNewlines(Last(replies).text), "<final_answer>",
               "</final_answer>").found

\* C28: in the tool loop a task input without a header line raises no
\* exception, and a reply without the candidate markers is taken, whole,
\* for the candidate body of its round
C28_MalformedFallsBack ==
  variant = "tool" =>
    /\ ~(pc = "raised" /\ exc = "ValueError")
    /\ (pending # <<>> /\ NoCandidateBlock) =>
         pending[1].code =
           BuildFullCode(task_input, ExtractDefHeader(task_input),
                         StripChars(NormalizeNewlines(Last(replies).text), {"NL"}))

\* C29: when every run has ended, the process environment is what it was
\* before the first: a TMPDIR that was unset is unset again, one that was
\* set has its first value
C29_EnvironRestored ==
  (\A i \in DemoRuns : run_pc[i] \in {"done", "raised"}) => environ = environ0

\* C30: the TMPDIR that runner.run reads inside _with_env is the directory
\* of its own run, never another run's and never unset
C30_OwnTmpdir ==
  demo_pc # "idle" => \A i \in DemoRuns : seen[i] # "none" => seen[i] = RunDir(i)

\* C31: the transcript of a run is ordered and append-only: it starts with
\* the system message, each round appends exactly one new turn (the step
\* prompt) at its end, no step of the run changes, reorders or removes a
\* message it already holds, and after k rounds have begun it holds exactly
\* 1 + k messages.
C31_TranscriptAppendOnly ==
  [][/\ pc' \in {"loop", "llm", "tool", "extract", "returned"} =>
          /\ messages' # <<>>
          /\ messages'[1] = SystemMessage(task_input')
          /\ Len(messages') = 1 + Len(SelectSeq(calls', LAMBDA c : c.call = "llm"))
          /\ \A k \in 2..Len(messages') : messages'[k].role = "user"
     /\ runs' = runs =>
          \/ messages' = messages
          \/ /\ Len(messages') = Len(messages) + 1
             /\ SubSeq(messages', 1, Len(messages)) = messages
             /\ pc = "loop" /\ pc' = "llm"
     /\ (pc = "loop" /\ pc' = "llm") => Len(messages') = Len(messages) + 1]_vars

\* the second round of the tool-using loop has completed: the transcript is
\* the system message and the two step prompts, the second one showing the
\* first round's record
C31_Witness ==
  /\ variant = "tool"
  /\ pc \in {"loop", "returned"}
  /\ Len(LlmCalls) = 2
  /\ Len(messages) = 3
  /\ messages[1].role = "system"
  /\ messages[2].window = <<>>
  /\ Len(messages[3].window) = 1

\* C32: in the tagged tool-using loop the blocking calls of a run alternate,
\* one backend call then one tool call per round, in round order; the tool
\* call of a round is issued only when the round's reply has been received
\* and parsed; a round is over (the loop head or the return is reached) only
\* with its tool call ended and its record appended; and the backend call of
\* round r+1 is issued only when the tool call of round r has ended and the
\* history holds the records of rounds 0..r.
C32_RoundOrder ==
  [][variant' = "tool" =>
       /\ \A k \in 1..Len(calls') :
            calls'[k] = [call |-> IF k % 2 = 1 THEN "llm" ELSE "tool",
                         round |-> (k - 1) \div 2]
       /\ pc' = "tool" =>
            /\ Len(calls') = 2 * Len(replies')
            /\ pending' # <<>>
            /\ Len(toolres') = Len(replies') - 1
       /\ pc' \in {"loop", "returned"} =>
            /\ Len(calls') = 2 * Len(history')
            /\ Len(toolres') = Len(history')
            /\ \A k \in 1..Len(history') : history'[k].round = k - 1
       /\ (Len(calls') = Len(calls) + 1 /\ calls'[Len(calls')].call = "llm") =>
            /\ Len(calls) = 2 * Len(history)
            /\ Len(toolres) = Len(history)
            /\ calls'[Len(calls')].round = Len(history)
            /\ history' = history]_vars

\* the backend call of the second round has been issued: the first round's
\* backend call and tool call precede it and its record is in the history
C32_Witness ==
  /\ variant = "tool"
  /\ pc = "llm"
  /\ Len(calls) = 3
  /\ calls[3] = [call |-> "llm", round |-> 1]
  /\ Len(toolres) = 1
  /\ Len(history) = 1

\* an entry of the content's JSON that is a call: a dict with a name and
\* parameters, neither of them null
WellFormedEntry(e) ==
  /\ ~LacksNameOrParameters(e)
  /\ ObjGet(e, FirstKey(e, <<<<"name">>, <<"function_name">>, <<"tool_name">>>>)) # JNull
  /\ ObjGet(e, FirstKey(e, <<<<"arguments">>, <<"parameters">>>>)) # JNull

\* C33: on the content fallback of decode_litellm_tool_calls, for a content
\* that is a JSON list, the result holds one call for every well-formed
\* entry of the list, in the order of the list, and no other: an entry that
\* is no dict or cannot be resolved does not affect the entries beside it.
C33_SiblingsDecoded ==
  (/\ fn = "decode_litellm_tool_calls"
   /\ arg.val.tool_calls = <<>>
   /\ IsStr(arg.val.content)
   /\ JsonLoads(arg.val.content[2]).ok
   /\ JsonLoads(arg.val.content[2]).val[1] = "arr") =>
    LET entries == JsonLoads(arg.val.content[2]).val[2]
        good == SelectSeq(entries, WellFormedEntry)
    IN  /\ Len(ret.calls) = Len(good)
        /\ \A i \in 1..Len(good) :
             /\ ObjGet(ret.calls[i], <<"name">>) =
                  ObjGet(good[i], FirstKey(good[i], <<<<"name">>, <<"function_name">>,
                                                      <<"tool_name">>>>))
             /\ ObjGet(ret.calls[i], <<"parameters">>) =
                  ObjGet(good[i], FirstKey(good[i], <<<<"arguments">>, <<"parameters">>>>))

\* C34: the failure report the controller builds when the tool call raises
\* is summarized with the exit code -1 that it writes after 'Exit code:',
\* and the step record of that round has exit_code = -1.
C34_SyntheticExitCode ==
  variant = "tool" =>
    \A k \in 1..Len(toolres) :
      (toolres[k] = "raised" /\ k <= Len(history)) =>
        history[k].exit_code = <<0 - 1>>

\* C35: in main() of inference_multi.py the results are positionally
\* stable: a filled slot i of results holds the record of item i (its
\* task_id is i) whatever the order in which the futures complete, a step
\* fills at most one slot, a filled slot is never written again, and when
\* write_output_func is called every slot is filled and the list is
\* written as it is.
C35_ResultsPositional ==
  [][/\ \A i \in Tasks :
          /\ results'[i] # <<>> =>
               /\ results'[i][1].task_id = i
               /\ futures'[i] = "done"
          /\ results[i] # <<>> => results'[i] = results[i]
     /\ Cardinality({i \in Tasks : results'[i] # results[i]}) <= 1
     /\ main_pc' = "written" =>
          /\ \A i \in Tasks : results'[i] = <<ResultRecord(i)>>
          /\ output' = <<results'>>]_vars

\* the last item was collected while the first one is still running: the
\* futures did not complete in the order of the items
C35_Witness ==
  /\ main_pc = "collecting"
  /\ futures[0] = "loop"
  /\ results[0] = <<>>
  /\ results[NumTasks - 1] = <<ResultRecord(NumTasks - 1)>>

\* C36: run_one_agent always returns a record and never lets an exception
\* of runner.run out: no run is left by an exception, a gathered run that
\* has ended has its record, and main() is never left by the exception of
\* a run, so asyncio.gather is never aborted.
C36_AlwaysReturnsRecord ==
  demo_pc # "idle" =>
    /\ demo_pc # "aborted"
    /\ \A i \in DOMAIN run_pc :
         /\ run_pc[i] # "raised"
         /\ (i > 0 /\ run_pc[i] = "done") => records[i] # <<>>

\* run i calls runner.run: _with_env has set the variable and calls fn
Invokes(i) == run_pc[i] = "set" /\ run_pc'[i] = "run"

\* run_one_agent of run i returns a record in this step
Returns(i) == records'[i] # records[i]

\* C37 as amended: run_one_agent calls runner.run at most twice; a second
\* call is made only when the first one raised SystemExit, never after a
\* return or another exception; a record returned after a retry has
\* attempts = 2, a record returned for a first call that returned has
\* attempts = 1, and the error record returned when the first call raised
\* another exception has no attempts field.
C37_RetryOnceAfterSystemExit ==
  [][\A i \in DOMAIN run_pc :
       /\ Len(outcomes'[i]) <= 2
       /\ Invokes(i) => outcomes[i] \in {<<>>, <<"SystemExit">>}
       /\ Returns(i) =>
            IF records'[i][1].error
            THEN /\ records'[i][1].attempts = <<>>
                 /\ outcomes[i] \in {<<>>, <<"Exception">>}
            ELSE records'[i][1].attempts =
                   <<IF Len(outcomes[i]) = 2 THEN 2 ELSE 1>>]_vars

\* a gathered run returned its record after a retry: the first call raised
\* SystemExit, the second returned a text, and attempts is 2
C37_Witness ==
  \E i \in DOMAIN records \ {0} :
    /\ run_pc[i] = "done"
    /\ records[i] = <<[ok |-> TRUE, attempts |-> <<2>>, error |-> FALSE]>>

\* C37: run_one_agent calls runner.run at most twice; a second call is made
\* only when the first one raised SystemExit, never after a return or
\* another exception; and the attempts field of a returned record is 2
\* after a retry and 1 otherwise.
C37_AttemptsFieldInEveryRecord ==
  [][\A i \in DOMAIN run_pc :
       /\ Len(outcomes'[i]) <= 2
       /\ Invokes(i) => outcomes[i] \in {<<>>, <<"SystemExit">>}
       /\ Returns(i) =>
            records'[i][1].attempts = <<IF Len(outcomes[i]) = 2 THEN 2 ELSE 1>>]_vars

\* C38: at every moment at most SUBMIT_CONCURRENCY (8) calls of
\* run_one_agent started by guarded_run are in progress, however many runs
\* are gathered; and, every call of run_one_agent ending, every guarded_run
\* eventually enters the semaphore and completes.
C38_BoundedAndLive ==
  /\ [](Cardinality(RunsInProgress) <= SUBMIT_CONCURRENCY)
  /\ \A i \in GatherRuns : <>(run_pc[i] \in {"done", "raised"})

\* C39: every copy of the agent directory that guarded_run makes is
\* eventually removed, whether run_one_agent returns or raises, and it is
\* not removed while the run_one_agent it was made for is still executing.
C39_CopyRemoved ==
  \A i \in GatherRuns :
    /\ [](copies[i] = "exists" => <>(copies[i] = "removed"))
    /\ [](copies[i] = "removed" => run_pc[i] \in {"done", "raised"})

=============================================================================
